---- MODULE Spec2Model ----
(***************************************************************************)
(* A model of the Mobius Vibe assistant: the rule-based NLU processor      *)
(* (src/nlu/nlu_processor.py), the task executor                           *)
(* (src/task_manager/task_executor.py) with its calendar and email         *)
(* services, the short-term memory (src/memory/memory_manager.py) and the  *)
(* conversation loops (src/ui/cli_interface.py, src/ui/streamlit_app.py).  *)
(*                                                                         *)
(* Python values are tagged records [t, v]:                                *)
(*   None            [t |-> "none", v |-> <<>>]                            *)
(*   a str           [t |-> "str",  v |-> a sequence of atoms]             *)
(*   a list          [t |-> "list", v |-> a sequence of values]            *)
(*   a dict          [t |-> "dict", v |-> a function from keys to values]  *)
(* A string is a sequence over an alphabet of atoms: an atom is a word, a  *)
(* literal fragment of a message, or the blank " ".  Concatenation,        *)
(* ' '.join, strip, [0] and truthiness work on that sequence as Python's   *)
(* work on the characters.                                                 *)
(***************************************************************************)
EXTENDS Naturals, Sequences, FiniteSets, TLC

VARIABLES
    short_term_memory,  \* MemoryManager.short_term_memory
    short_term_limit,   \* MemoryManager.config['short_term_limit']
    added,              \* history: every turn handed to add_short_term, in order
    doc,                \* the parsed utterance the NLU processor works on
    nlp_state,          \* NLUProcessor.nlp: "loaded", "missing", or "failing"
    nlu_result,         \* what NLUProcessor.process returned last
    task,               \* the last execute_task call: its input, world and outcome
    turn,               \* what the last conversation turn did
    actionable_intents, \* the intents the conversation loop hands to the executor
    pc                  \* position of the conversation loop

vars == <<short_term_memory, short_term_limit, added, doc, nlp_state,
          nlu_result, task, turn, actionable_intents, pc>>

(***************************************************************************)
(* Python values                                                           *)
(***************************************************************************)
None == [t |-> "none", v |-> <<>>]
Str(s) == [t |-> "str", v |-> s]
List(l) == [t |-> "list", v |-> l]
Dict(f) == [t |-> "dict", v |-> f]

\* bool(x) for the values the program tests
Truthy(x) ==
    CASE x.t = "none" -> FALSE
      [] x.t = "str" -> x.v # <<>>
      [] x.t = "list" -> x.v # <<>>
      [] x.t = "dict" -> DOMAIN x.v # {}
      [] OTHER -> TRUE

\* a single-atom string
S(a) == Str(<<a>>)

\* an evaluation that may raise: exc = "" when it returned val
Ok(val) == [exc |-> "", val |-> val]
Raise(e) == [exc |-> e, val |-> None]

\* x[0] for a str (its first character), a list (its first element), or
\* anything else (TypeError); IndexError on an empty sequence
Index0(x) ==
    CASE x.t = "str" -> IF x.v = <<>> THEN Raise("IndexError") ELSE Ok(S(x.v[1]))
      [] x.t = "list" -> IF x.v = <<>> THEN Raise("IndexError") ELSE Ok(x.v[1])
      [] OTHER -> Raise("TypeError")

\* d.get(key, default); AttributeError when d is not a dict
DictGet(d, key, default) ==
    IF d.t # "dict" THEN Raise("AttributeError")
    ELSE IF key \in DOMAIN d.v THEN Ok(d.v[key]) ELSE Ok(default)

\* f"{x}": the text a value contributes to a formatted message
Fmt(x) ==
    CASE x.t = "str" -> x.v
      [] x.t = "none" -> <<"None">>
      [] x.t = "list" -> <<"[...]">>
      [] OTHER -> <<"{...}">>

Blank == " "

NewLine == "\n"
Whitespace == {Blank, NewLine}

RECURSIVE LStrip(_)
LStrip(s) == IF s # <<>> /\ Head(s) \in Whitespace THEN LStrip(Tail(s)) ELSE s

RECURSIVE RStrip(_)
RStrip(s) ==
    IF s # <<>> /\ s[Len(s)] \in Whitespace
    THEN RStrip(SubSeq(s, 1, Len(s) - 1)) ELSE s

\* str.strip()
Strip(s) == RStrip(LStrip(s))

\* ' '.join(parts), parts a sequence of atoms
RECURSIVE Join(_)
Join(parts) ==
    IF parts = <<>> THEN <<>>
    ELSE IF Len(parts) = 1 THEN parts
    ELSE <<Head(parts), Blank>> \o Join(Tail(parts))

(***************************************************************************)
(* Short-term memory (src/memory/memory_manager.py)                        *)
(***************************************************************************)
add_short_term_pop_last(mem, limit, user_input, assistant_response) ==
    LET appended == Append(mem, [user |-> user_input, assistant |-> assistant_response])
    IN IF Len(appended) > limit THEN SubSeq(appended, 1, Len(appended) - 1)
       ELSE appended

add_short_term_prepends(mem, limit, user_input, assistant_response) ==
    LET inserted == <<[user |-> user_input, assistant |-> assistant_response]>> \o mem
    IN IF Len(inserted) > limit THEN Tail(inserted) ELSE inserted

add_short_term_off_by_one(mem, limit, user_input, assistant_response) ==
    LET appended == Append(mem, [user |-> user_input, assistant |-> assistant_response])
    IN IF Len(appended) > limit + 1 THEN Tail(appended) ELSE appended

\* append the turn, then pop(0) once when the list is longer than the limit
add_short_term(mem, limit, user_input, assistant_response) ==
    LET appended == Append(mem, [user |-> user_input, assistant |-> assistant_response])
    IN IF Len(appended) > limit THEN Tail(appended) ELSE appended

\* returns the list itself
get_short_term_context(mem) == mem

(***************************************************************************)
(* Parsed utterances.  The tokenizer, tagger and named-entity recogniser   *)
(* are spaCy's: a doc is the token sequence and the entity spans it gave.  *)
(* A token carries its text, lemma, part of speech and lexical flags:      *)
(*   "title" is_title, "punct" is_punct, "stop" is_stop,                   *)
(*   "email" like_email, "num" like_num.                                   *)
(***************************************************************************)
Tok(text, lemma, pos, flags) ==
    [text |-> text, lemma |-> lemma, pos |-> pos, flags |-> flags]

\* str.lower() on the atoms that are not already lower case
Lower(a) ==
    CASE a = "Now" -> "now"
      [] a = "Chrome" -> "chrome"
      [] a = ".EXE" -> ".exe"
      [] a = "PERSON" -> "person"
      [] a = "ORG" -> "org"
      [] a = "PRODUCT" -> "product"
      [] a = "DATE" -> "date"
      [] a = "TIME" -> "time"
      [] a = "GPE" -> "gpe"
      [] OTHER -> a

\* texts matching ^\d{1,3}\.\d{1,3}\.\d{1,3}\.\d{1,3}$
IpTexts == {"192.168.1.1", "8.8.8.8"}
\* texts containing a '.'
DottedTexts == IpTexts \cup {"google.com", "example.org", "3.14", "."}
\* texts that are digits once the dots are removed
DigitTexts == IpTexts \cup {"3.14", "42"}
\* texts of one character
OneCharTexts == {".", Blank, "a"}

LemmaSet(d) == {d.tokens[i].lemma : i \in DOMAIN d.tokens}

\* any(t in tokens_lemma for t in words)
AnyLemma(d, words) == LemmaSet(d) \cap words # {}

OpenLemmas == {"open", "launch", "start"}
KnownApps == {"chrome", "firefox", "edge", "notepad", "calculator"}

\* the test on the token after an open/launch/start token
FollowsAsApplication(next_token) ==
    \/ next_token.pos \in {"NOUN", "PROPN", "X"}
    \/ "title" \in next_token.flags
    \/ Lower(next_token.text) \in KnownApps

\* the for loop of the open/launch/start branch returns open_application
OpenLoopReturns(d) ==
    \E i \in DOMAIN d.tokens :
        /\ d.tokens[i].lemma \in OpenLemmas
        /\ i + 1 <= Len(d.tokens)
        /\ FollowsAsApplication(d.tokens[i + 1])

OpenBranch_falls_to_later_rules(d, later) ==
    IF OpenLoopReturns(d) THEN "open_application" ELSE later

\* the branch taken when an open/launch/start lemma is present: the loop
\* returns or the if/elif chain is left, and "unknown_intent" is returned
OpenBranch(d, later) ==
    IF OpenLoopReturns(d) THEN "open_application" ELSE "unknown_intent"

\* the rules below the open/launch/start branch
LaterRules(d) ==
    IF AnyLemma(d, {"search", "find", "look up", "google"}) THEN "search_web"
    ELSE IF AnyLemma(d, {"reminder", "remind"}) THEN "set_reminder"
    ELSE IF AnyLemma(d, {"close", "exit", "quit"}) THEN "close_application"
    ELSE IF /\ AnyLemma(d, {"date", "time", "day", "today"})
            /\ ~AnyLemma(d, {"schedule", "meeting", "reminder"})
         THEN "get_current_datetime"
    ELSE IF AnyLemma(d, {"schedule", "book", "set up"}) THEN "schedule_event"
    ELSE IF AnyLemma(d, {"send"}) THEN "send_message"
    ELSE IF AnyLemma(d, {"nmap"}) THEN "run_nmap"
    ELSE IF AnyLemma(d, {"whois"}) THEN "run_whois"
    ELSE "unknown_intent"

_recognize_intent_meeting_after_open(d) ==
    IF AnyLemma(d, {"email", "mail"}) /\ "send" \in LemmaSet(d) THEN "send_email"
    ELSE IF AnyLemma(d, {"message", "note"}) /\ "send" \in LemmaSet(d) THEN "send_message"
    ELSE IF AnyLemma(d, OpenLemmas) THEN OpenBranch(d, LaterRules(d))
    ELSE IF /\ "meeting" \in LemmaSet(d)
            /\ AnyLemma(d, {"schedule", "book", "set up", "arrange"})
    THEN "schedule_meeting"
    ELSE LaterRules(d)

_recognize_intent(d) ==
    IF /\ "meeting" \in LemmaSet(d)
       /\ AnyLemma(d, {"schedule", "book", "set up", "arrange"})
    THEN "schedule_meeting"
    ELSE IF AnyLemma(d, {"email", "mail"}) /\ "send" \in LemmaSet(d) THEN "send_email"
    ELSE IF AnyLemma(d, {"message", "note"}) /\ "send" \in LemmaSet(d) THEN "send_message"
    ELSE IF AnyLemma(d, OpenLemmas) THEN OpenBranch(d, LaterRules(d))
    ELSE LaterRules(d)


(***************************************************************************)
(* Entity extraction (NLUProcessor._extract_entities).  The entity bag is  *)
(* a function from the keys present to their values.                       *)
(***************************************************************************)
Put(d, k, x) == [y \in DOMAIN d \cup {k} |-> IF y = k THEN x ELSE d[y]]

\* the loop over doc.ents: date/time, person and org/product entities are
\* appended to lists, any other label is stored under its lower-cased name
RECURSIVE BucketEnts(_, _)
BucketEnts(ents, entities) ==
    IF ents = <<>> THEN entities
    ELSE LET ent == Head(ents)
             label == Lower(ent.label)
             key == IF label \in {"date", "time"} THEN "datetime"
                    ELSE IF label = "person" THEN "person"
                    ELSE IF label \in {"org", "product"} THEN "object_name"
                    ELSE label
             listed == label \in {"date", "time", "person", "org", "product"}
             old == IF key \in DOMAIN entities THEN entities[key].v ELSE <<>>
         IN BucketEnts(Tail(ents),
                       Put(entities, key,
                           IF listed THEN List(Append(old, Str(ent.text)))
                           ELSE Str(ent.text)))

\* ' '.join of a list of strings
RECURSIVE JoinStrs(_)
JoinStrs(l) ==
    IF l = <<>> THEN <<>>
    ELSE IF Len(l) = 1 THEN Head(l).v
    ELSE Head(l).v \o <<Blank>> \o JoinStrs(Tail(l))

\* entities['datetime'] = ' '.join(entities['datetime'])
JoinDatetime(entities) ==
    IF "datetime" \in DOMAIN entities
    THEN Put(entities, "datetime", Str(JoinStrs(entities["datetime"].v)))
    ELSE entities

\* the last token that looks like an email address wins
RECURSIVE EmailScan(_, _)
EmailScan(tokens, entities) ==
    IF tokens = <<>> THEN entities
    ELSE EmailScan(Tail(tokens),
                   IF "email" \in Head(tokens).flags
                   THEN Put(entities, "email_address", S(Head(tokens).text))
                   ELSE entities)

NameTriggers == {"open", "launch", "start", "close", "quit", "exit"}

\* the inner loop from token j: texts are collected up to the first
\* punctuation or verb token, and the loop stops once more than 3 are held
RECURSIVE NameParts(_, _, _)
NameParts(tokens, j, parts) ==
    IF j > Len(tokens) THEN parts
    ELSE IF "punct" \in tokens[j].flags \/ tokens[j].pos = "VERB" THEN parts
    ELSE LET more == Append(parts, tokens[j].text)
         IN IF Len(more) > 3 THEN more ELSE NameParts(tokens, j + 1, more)

\* the outer loop from token i: the first trigger with a non-empty capture
RECURSIVE NameScan(_, _, _)
NameScan(tokens, i, entities) ==
    IF i > Len(tokens) THEN entities
    ELSE IF tokens[i].lemma \in NameTriggers /\ i + 1 <= Len(tokens)
    THEN LET parts == NameParts(tokens, i + 1, <<>>)
         IN IF parts # <<>>
            THEN Put(entities, "object_name", List(<<Str(Join(parts))>>))
            ELSE NameScan(tokens, i + 1, entities)
    ELSE NameScan(tokens, i + 1, entities)

\* index of the first token whose lemma is in the set, 0 when there is none
FirstLemma(tokens, lemmas) ==
    IF \E i \in DOMAIN tokens : tokens[i].lemma \in lemmas
    THEN CHOOSE i \in DOMAIN tokens :
            /\ tokens[i].lemma \in lemmas
            /\ \A k \in 1..(i - 1) : tokens[k].lemma \notin lemmas
    ELSE 0

RECURSIVE SkipDetPron(_, _)
SkipDetPron(tokens, i) ==
    IF i <= Len(tokens) /\ tokens[i].pos \in {"DET", "PRON"}
    THEN SkipDetPron(tokens, i + 1) ELSE i

Texts(tokens) == [i \in DOMAIN tokens |-> tokens[i].text]

SearchQuery_keeps_determiners(tokens, entities) ==
    LET start_index == FirstLemma(tokens, {"search", "find", "look up", "google"})
        after == start_index + 1
        current_index == IF after <= Len(tokens) /\ tokens[after].lemma \in {"for", "about", "on"}
                         THEN after + 1 ELSE after
        query_parts == IF start_index = 0 THEN <<>>
                       ELSE Texts(SubSeq(tokens, current_index, Len(tokens)))
    IN IF query_parts # <<>>
       THEN Put(entities, "search_query", Str(Strip(Join(query_parts))))
       ELSE entities

SearchQuery(tokens, entities) ==
    LET start_index == FirstLemma(tokens, {"search", "find", "look up", "google"})
        after == start_index + 1
        skipped == IF after <= Len(tokens) /\ tokens[after].lemma \in {"for", "about", "on"}
                   THEN after + 1 ELSE after
        current_index == SkipDetPron(tokens, skipped)
        query_parts == IF start_index = 0 THEN <<>>
                       ELSE Texts(SubSeq(tokens, current_index, Len(tokens)))
    IN IF query_parts # <<>>
       THEN Put(entities, "search_query", Str(Strip(Join(query_parts))))
       ELSE entities

\* the scan after the nmap/whois trigger: the first token that is an IP or
\* looks like a domain, <<>> when there is none
RECURSIVE TargetScan(_, _)
TargetScan(tokens, i) ==
    IF i > Len(tokens) THEN <<>>
    ELSE LET token == tokens[i]
             token_text == Strip(<<token.text>>)
             text == IF token_text = <<>> THEN "" ELSE token_text[1]
         IN IF \/ "punct" \in token.flags
               \/ "stop" \in token.flags
               \/ token.lemma \in {"at", "on", "for"}
            THEN TargetScan(tokens, i + 1)
            ELSE IF text \in IpTexts THEN token_text
            ELSE IF /\ text \in DottedTexts
                    /\ "num" \notin token.flags
                    /\ text \notin DigitTexts
                    /\ text \notin OneCharTexts
                 THEN token_text
            ELSE TargetScan(tokens, i + 1)

TargetAddress(tokens, entities) ==
    LET start_index == FirstLemma(tokens, {"nmap", "whois"})
        potential_target == IF start_index = 0 THEN <<>>
                            ELSE TargetScan(tokens, start_index + 1)
    IN IF potential_target # <<>>
       THEN Put(entities, "target_address", Str(potential_target))
       ELSE entities

_extract_entities_by_later_rules(d) ==
    LET ner == EmailScan(d.tokens, JoinDatetime(BucketEnts(d.ents, <<>>)))
        intent == LaterRules(d)
        named == IF /\ intent \in {"open_application", "close_application"}
                    /\ "object_name" \notin DOMAIN ner
                 THEN NameScan(d.tokens, 1, ner) ELSE ner
        searched == IF intent = "search_web" THEN SearchQuery(d.tokens, named)
                    ELSE named
    IN IF /\ intent \in {"run_nmap", "run_whois"}
          /\ "target_address" \notin DOMAIN searched
       THEN TargetAddress(d.tokens, searched) ELSE searched

_extract_entities(d) ==
    LET ner == EmailScan(d.tokens, JoinDatetime(BucketEnts(d.ents, <<>>)))
        intent == _recognize_intent(d)
        named == IF /\ intent \in {"open_application", "close_application"}
                    /\ "object_name" \notin DOMAIN ner
                 THEN NameScan(d.tokens, 1, ner) ELSE ner
        searched == IF intent = "search_web" THEN SearchQuery(d.tokens, named)
                    ELSE named
    IN IF /\ intent \in {"run_nmap", "run_whois"}
          /\ "target_address" \notin DOMAIN searched
       THEN TargetAddress(d.tokens, searched) ELSE searched

(***************************************************************************)
(* NLUProcessor.process.  nlp_state is "missing" when the spaCy model did  *)
(* not load (self.nlp is None), "failing" when parsing the text raises,    *)
(* and "loaded" otherwise.                                                 *)
(***************************************************************************)
ErrorResult(message) ==
    [intent |-> "error", entities |-> Dict(<<>>), error |-> Str(message)]

process_failure_as_unknown(d, nlp) ==
    IF nlp = "missing" THEN ErrorResult(<<"NLU model unavailable">>)
    ELSE IF nlp = "failing" THEN [intent |-> "unknown_intent", entities |-> Dict(<<>>)]
    ELSE [intent |-> _recognize_intent(d), entities |-> Dict(_extract_entities(d))]

\* the early return when the model is not loaded, the except branch when
\* parsing raises, the result otherwise
process(d, nlp) ==
    IF nlp = "missing" THEN ErrorResult(<<"NLU model unavailable">>)
    ELSE IF nlp = "failing" THEN ErrorResult(<<"NLU processing failed">>)
    ELSE [intent |-> _recognize_intent(d), entities |-> Dict(_extract_entities(d))]

(***************************************************************************)
(* The world a task runs in: what each external collaborator does when it  *)
(* is called.                                                              *)
(*   calendar_ready    the Google Calendar service and credentials exist   *)
(*   insert            events().insert().execute(): "ok", "HttpError",     *)
(*                     "Exception"                                         *)
(*   email_configured  the SMTP settings are complete                      *)
(*   smtp              the SMTP session: "ok" or the exception raised      *)
(*   os_name           os.name                                             *)
(*   startfile         what the first and second os.startfile call do      *)
(*   http              requests.get/raise_for_status/json: "ok",           *)
(*                     "RequestException", "ValueError",                   *)
(*                     "requests.JSONDecodeError"                          *)
(*   data              the JSON document of the response                   *)
(*   whois             whois.whois: "found", "empty", "no_match",          *)
(*                     "PywhoisError", "Exception"                         *)
(*   nmap              subprocess.run: "exit0", "exit1", "exit1_silent",   *)
(*                     "FileNotFoundError", "TimeoutExpired", "Exception"  *)
(*   stdout, stderr    what the nmap process wrote                         *)
(* A task's outcome is the string it returned (or the exception that       *)
(* escaped) and the calls it made, in order.                               *)
(***************************************************************************)
Done(result, calls) == [raised |-> "", result |-> result, calls |-> calls]
Escaped(e, calls) == [raised |-> e, result |-> <<>>, calls |-> calls]
Call(fn, args) == [fn |-> fn, args |-> args]

\* texts datetime.fromisoformat parses, and the text one hour later
IsoTexts == {"2024-07-28T10:00:00"}
PlusOneHour(a) == IF a = "2024-07-28T10:00:00" THEN "2024-07-28T11:00:00" ELSE a

\* CalendarService.schedule_event(summary, start_datetime, end_datetime=None)
schedule_event(summary, start_datetime, end_datetime, w) ==
    IF ~w.calendar_ready
    THEN Done(<<"Error: Calendar service not configured or authentication failed.">>, <<>>)
    ELSE IF ~Truthy(end_datetime) /\ start_datetime.t # "str"
    THEN Escaped("TypeError", <<>>)
    ELSE IF ~Truthy(end_datetime)
            /\ ~(Len(start_datetime.v) = 1 /\ start_datetime.v[1] \in IsoTexts)
    THEN Done(<<"Error: Invalid start date/time format '">> \o start_datetime.v
              \o <<"'. Use ISO 8601 (e.g., YYYY-MM-DDTHH:MM:SS[-HH:MM]).">>, <<>>)
    ELSE LET end == IF Truthy(end_datetime) THEN end_datetime
                    ELSE S(PlusOneHour(start_datetime.v[1]))
             calls == <<Call("events.insert", <<Str(summary), start_datetime, end>>)>>
         IN CASE w.insert = "ok" ->
                    Done(<<"Event '">> \o summary
                         \o <<"' scheduled successfully. Link: ", "<link>">>, calls)
              [] w.insert = "HttpError" ->
                    Done(<<"Failed to schedule event due to API error: ", "<error>">>, calls)
              [] OTHER -> Done(<<"Failed to schedule event: ", "<error>">>, calls)

\* the success flag schedule_event returns with a message: True only with
\* the message of a created event
Success(out) == out.raised = "" /\ out.result # <<>> /\ out.result[1] = "Event '"

\* EmailService.send_email(recipient, subject, body)
send_email(recipient, subject, body, w) ==
    IF ~w.email_configured
    THEN Done(<<"Error: Email service not configured. Please check SMTP settings.">>, <<>>)
    ELSE IF body.t # "str" THEN Escaped("AttributeError", <<>>)
    ELSE LET calls == <<Call("smtp", <<recipient, subject, body>>)>>
         IN CASE w.smtp = "ok" ->
                    Done(<<"Email successfully sent to ">> \o Fmt(recipient) \o <<".">>, calls)
              [] w.smtp = "SMTPAuthenticationError" ->
                    Done(<<"Failed to send email: Authentication error. Check username/password.">>, calls)
              [] w.smtp = "SMTPServerDisconnected" ->
                    Done(<<"Failed to send email: Server disconnected.">>, calls)
              [] w.smtp = "SMTPConnectError" ->
                    Done(<<"Failed to send email: Connection error. Check server/port.">>, calls)
              [] OTHER ->
                    Done(<<"Failed to send email due to an unexpected error: ", "<error>">>, calls)


(***************************************************************************)
(* TaskExecutor.execute_task: one handler per intent.                      *)
(***************************************************************************)
\* entities.get(key, default)[0]
GetFirst(entities, key, default) ==
    LET got == DictGet(entities, key, default)
    IN IF got.exc # "" THEN got ELSE Index0(got.val)

ScheduleMeeting_skips_without_datetime(entities, w) ==
    LET person == GetFirst(entities, "person", List(<<S("Someone")>>))
        datetime_str == DictGet(entities, "datetime", None)
    IN IF person.exc # "" THEN Escaped(person.exc, <<>>)
       ELSE IF ~Truthy(datetime_str.val)
       THEN Done(<<"Error: No date or time specified for the meeting.">>, <<>>)
       ELSE LET summary == <<"Meeting with ">> \o Fmt(person.val)
                call == Call("calendar_service.schedule_event",
                             <<Str(summary), datetime_str.val, None>>)
                out == schedule_event(summary, datetime_str.val, None, w)
            IN [out EXCEPT !.calls = <<call>> \o @]

\* the schedule_meeting branch
ScheduleMeeting(entities, w) ==
    LET person == GetFirst(entities, "person", List(<<S("Someone")>>))
        datetime_str == DictGet(entities, "datetime", S("an unspecified time"))
    IN IF person.exc # "" THEN Escaped(person.exc, <<>>)
       ELSE LET summary == <<"Meeting with ">> \o Fmt(person.val)
                call == Call("calendar_service.schedule_event",
                             <<Str(summary), datetime_str.val, None>>)
                out == schedule_event(summary, datetime_str.val, None, w)
            IN [out EXCEPT !.calls = <<call>> \o @]

SendEmail(entities, w) ==
    LET person == GetFirst(entities, "person", List(<<None>>))
        recipient == IF person.exc # "" THEN person
                     ELSE DictGet(entities, "email_address", person.val)
        subject == DictGet(entities, "subject", S("Quick Question"))
        body == DictGet(entities, "body", S("..."))
    IN IF recipient.exc # "" THEN Escaped(recipient.exc, <<>>)
       ELSE IF Truthy(recipient.val)
       THEN LET call == Call("email_service.send_email",
                             <<recipient.val, subject.val, body.val>>)
                out == send_email(recipient.val, subject.val, body.val, w)
            IN [out EXCEPT !.calls = <<call>> \o @]
       ELSE Done(<<"Error: Could not determine recipient for email.">>, <<>>)

SendMessage(entities, w) ==
    LET recipient == GetFirst(entities, "person", List(<<S("Someone")>>))
        message_body == DictGet(entities, "message_body", S("..."))
    IN IF recipient.exc # "" THEN Escaped(recipient.exc, <<>>)
       ELSE Done(<<"Action Required: Send message to ">> \o Fmt(recipient.val)
                 \o <<". Body: '">> \o Fmt(message_body.val)
                 \o <<"'. (Integration not implemented)">>, <<>>)

\* os.startfile exists on Windows only: elsewhere the attribute lookup raises
StartFile(w, attempt) ==
    IF w.os_name = "nt" THEN w.startfile[attempt] ELSE "AttributeError"

LaunchCalls(w, names) ==
    IF w.os_name = "nt" THEN [i \in DOMAIN names |-> Call("os.startfile", <<Str(names[i])>>)]
    ELSE <<>>

\* app_name.lower().endswith('.exe')
\* texts that end in .exe once lowered
ExeTexts == {".exe", ".EXE", "beta.exe", "notepad.exe", "Calc.EXE"}
EndsWithExe(name) == name # <<>> /\ name[Len(name)] \in ExeTexts

NotFoundTail == <<" not found. Make sure it's in your system's PATH or provide the full path.">>

OpenApplication_gives_up_after_first(entities, w) ==
    LET app == GetFirst(entities, "object_name", List(<<None>>))
        app_name == app.val.v
        first == StartFile(w, 1)
    IN IF app.exc # "" THEN Escaped(app.exc, <<>>)
       ELSE IF ~Truthy(app.val) THEN Done(<<"Error: No application name specified.">>, <<>>)
       ELSE IF first = "ok"
       THEN Done(<<"Attempting to open ">> \o app_name \o <<"...">>,
                 LaunchCalls(w, <<app_name>>))
       ELSE IF first = "FileNotFoundError"
       THEN Done(<<"Error: Application or file '">> \o app_name \o <<"'">>
                 \o NotFoundTail, LaunchCalls(w, <<app_name>>))
       ELSE IF first = "OSError"
       THEN Done(<<"Error: Could not open application '">> \o app_name
                 \o <<"' due to an OS error: ", "<error>">>, LaunchCalls(w, <<app_name>>))
       ELSE Done(<<"Error: An unexpected error occurred while trying to open '">>
                 \o app_name \o <<"'. ", "<error>">>, LaunchCalls(w, <<app_name>>))

\* the open_application branch
OpenApplication(entities, w) ==
    LET app == GetFirst(entities, "object_name", List(<<None>>))
        app_name == app.val.v
        app_name_exe == app_name \o <<".exe">>
        first == StartFile(w, 1)
        second == StartFile(w, 2)
    IN IF app.exc # "" THEN Escaped(app.exc, <<>>)
       ELSE IF ~Truthy(app.val) THEN Done(<<"Error: No application name specified.">>, <<>>)
       ELSE IF first = "ok"
       THEN Done(<<"Attempting to open ">> \o app_name \o <<"...">>,
                 LaunchCalls(w, <<app_name>>))
       ELSE IF first = "FileNotFoundError"
       THEN IF w.os_name = "nt" /\ ~EndsWithExe(app_name)
            THEN LET calls == LaunchCalls(w, <<app_name, app_name_exe>>)
                 IN IF second = "ok"
                    THEN Done(<<"Attempting to open ">> \o app_name_exe \o <<"...">>, calls)
                    ELSE IF second = "FileNotFoundError"
                    THEN Done(<<"Error: Application or file '">> \o app_name
                              \o <<"' (or '">> \o app_name_exe \o <<"')">>
                              \o NotFoundTail, calls)
                    ELSE Done(<<"Error: Could not open application '">> \o app_name_exe
                              \o <<"' even after adding .exe. Error: ", "<error>">>, calls)
            ELSE Done(<<"Error: Application or file '">> \o app_name \o <<"'">>
                      \o NotFoundTail, LaunchCalls(w, <<app_name>>))
       ELSE IF first = "OSError"
       THEN Done(<<"Error: Could not open application '">> \o app_name
                 \o <<"' due to an OS error: ", "<error>">>, LaunchCalls(w, <<app_name>>))
       ELSE Done(<<"Error: An unexpected error occurred while trying to open '">>
                 \o app_name \o <<"'. ", "<error>">>, LaunchCalls(w, <<app_name>>))

GetCurrentDatetime(entities, w) ==
    Done(<<"The current date and time is ">> \o w.now \o <<".">>, <<>>)


\* urllib.parse.quote_plus: a blank becomes '+'
quote_plus(q) == [i \in DOMAIN q |-> IF q[i] = Blank THEN "+" ELSE q[i]]

\* data.get(key) is truthy
Has(data, key) == key \in DOMAIN data.v /\ Truthy(data.v[key])

\* the loop over data['RelatedTopics'] from the topic at position i
\* (enumerate index i - 1)
RECURSIVE TopicLines(_, _)
TopicLines(topics, i) ==
    IF i > Len(topics) THEN <<>>
    ELSE LET topic == topics[i]
             line == IF Has(topic, "Text")
                     THEN <<"- ">> \o topic.v["Text"].v \o <<NewLine>> ELSE <<>>
         IN IF i - 1 > 3 THEN line \o <<"- ...and more.", NewLine>>
            ELSE line \o TopicLines(topics, i + 1)

SourceLine(data, name, url) ==
    IF Has(data, name) /\ Has(data, url)
    THEN <<"Source: ">> \o data.v[name].v \o <<" (">> \o data.v[url].v \o <<")", NewLine>>
    ELSE <<>>

Summary_appends_answer(data) ==
    (IF Has(data, "AbstractText")
     THEN <<"Summary: ">> \o data.v["AbstractText"].v \o <<NewLine>>
          \o SourceLine(data, "AbstractSource", "AbstractURL")
     ELSE IF Has(data, "Definition")
     THEN <<"Definition: ">> \o data.v["Definition"].v \o <<NewLine>>
          \o SourceLine(data, "DefinitionSource", "DefinitionURL")
     ELSE <<>>)
    \o (IF Has(data, "Answer")
        THEN <<"Answer: ">> \o data.v["Answer"].v \o <<NewLine>>
        ELSE IF Has(data, "RelatedTopics")
        THEN <<"Related Topics:", NewLine>> \o TopicLines(data.v["RelatedTopics"].v, 1)
        ELSE <<>>)

\* the text built from the response document
Summary(data) ==
    IF Has(data, "AbstractText")
    THEN <<"Summary: ">> \o data.v["AbstractText"].v \o <<NewLine>>
         \o SourceLine(data, "AbstractSource", "AbstractURL")
    ELSE IF Has(data, "Definition")
    THEN <<"Definition: ">> \o data.v["Definition"].v \o <<NewLine>>
         \o SourceLine(data, "DefinitionSource", "DefinitionURL")
    ELSE IF Has(data, "Answer")
    THEN <<"Answer: ">> \o data.v["Answer"].v \o <<NewLine>>
    ELSE IF Has(data, "RelatedTopics")
    THEN <<"Related Topics:", NewLine>> \o TopicLines(data.v["RelatedTopics"].v, 1)
    ELSE <<>>

\* what except requests.exceptions.RequestException catches: a connection
\* error, timeout or HTTP error status, and the JSONDecodeError that
\* response.json() raises in requests 2.27 and later (older versions raise
\* the json module's ValueError, which is not a RequestException)
RequestExceptions == {"RequestException", "requests.JSONDecodeError"}
\* the two ways response.json() fails on a body that is not JSON
ParseFailures == {"ValueError", "requests.JSONDecodeError"}

\* the search_web branch
SearchWeb(entities, w) ==
    LET query == DictGet(entities, "search_query", None)
        call == <<Call("requests.get", <<query.val>>)>>
        unexpected == <<"Error: An unexpected error occurred during the web search for '">>
                      \o Fmt(query.val) \o <<"'. ", "<error>">>
    IN IF query.exc # "" THEN Escaped(query.exc, <<>>)
       ELSE IF ~Truthy(query.val) THEN Done(<<"Error: No search query specified.">>, <<>>)
       ELSE IF query.val.t # "str" THEN Done(unexpected, <<>>)
       ELSE IF w.http \in RequestExceptions
       THEN Done(<<"Error: Could not connect to the search service. ", "<error>">>, call)
       ELSE IF w.http = "ValueError" \/ w.data.t # "dict" THEN Done(unexpected, call)
       ELSE LET summary == Summary(w.data)
            IN IF summary = <<>>
               THEN Done(<<"I couldn't find a direct answer or summary for '">>
                         \o query.val.v
                         \o <<"'. You can try searching directly: https://duckduckgo.com/?q=">>
                         \o quote_plus(query.val.v), call)
               ELSE Done(Strip(summary), call)

\* "\n".join(f"{key}: {value}" for key, value in w.items())
RECURSIVE FormatItems(_)
FormatItems(items) ==
    IF items = <<>> THEN <<>>
    ELSE <<Head(items)[1], ": ", Head(items)[2]>>
         \o (IF Len(items) > 1 THEN <<NewLine>> ELSE <<>>) \o FormatItems(Tail(items))

RunWhois(entities, w) ==
    LET target == DictGet(entities, "target_address", None)
        call == <<Call("whois.whois", <<target.val>>)>>
    IN IF target.exc # "" THEN Escaped(target.exc, <<>>)
       ELSE IF ~Truthy(target.val)
       THEN Done(<<"Error: No target address (domain or IP) specified for WHOIS lookup.">>, <<>>)
       ELSE IF w.whois \in {"empty", "no_match"}
       THEN Done(<<"No WHOIS information found for '">> \o Fmt(target.val) \o <<"'.">>, call)
       ELSE IF w.whois = "found"
       THEN Done(<<"WHOIS lookup results for ">> \o Fmt(target.val) \o <<":", NewLine>>
                 \o FormatItems(w.whois_items), call)
       ELSE IF w.whois = "PywhoisError"
       THEN Done(<<"Error during WHOIS lookup for '">> \o Fmt(target.val)
                 \o <<"': ", "<error>">>, call)
       ELSE Done(<<"Error: An unexpected error occurred during WHOIS lookup for '">>
                 \o Fmt(target.val) \o <<"'. ", "<error>">>, call)

RunNmap_runs_without_target(entities, w) ==
    LET target == DictGet(entities, "target_address", None)
        call == <<Call("subprocess.run", <<S("nmap"), target.val>>)>>
        unexpected == <<"Error: An unexpected error occurred during Nmap scan for '">>
                      \o Fmt(target.val) \o <<"'. ", "<error>">>
    IN IF target.exc # "" THEN Escaped(target.exc, <<>>)
       ELSE IF ~Truthy(target.val)
       THEN Done(<<"Error: No target address (domain or IP) specified for Nmap scan.">>, call)
       ELSE IF target.val.t # "str" THEN Done(unexpected, <<>>)
       ELSE IF w.nmap = "exit0"
       THEN Done(<<"Nmap scan results for ">> \o target.val.v \o <<":", NewLine>>
                 \o w.stdout, call)
       ELSE IF w.nmap = "exit1"
       THEN LET error_message ==
                    IF w.stderr # <<>> THEN w.stderr
                    ELSE <<"'nmap' command failed with return code ", "1",
                           ". Is 'nmap' installed and in PATH?">>
            IN Done(<<"Error running Nmap scan for ">> \o target.val.v \o <<": ">>
                    \o error_message, call)
       ELSE IF w.nmap = "FileNotFoundError"
       THEN Done(<<"Error: 'nmap' command not found. Please ensure it is installed and in your system's PATH.">>, call)
       ELSE IF w.nmap = "TimeoutExpired"
       THEN Done(<<"Error: Nmap command for '">> \o target.val.v
                 \o <<"' ", "timed out", " after 120 seconds.">>, call)
       ELSE Done(unexpected, call)

RunNmap_retries_on_timeout(entities, w) ==
    LET target == DictGet(entities, "target_address", None)
        call == <<Call("subprocess.run", <<S("nmap"), target.val>>)>>
        unexpected == <<"Error: An unexpected error occurred during Nmap scan for '">>
                      \o Fmt(target.val) \o <<"'. ", "<error>">>
    IN IF target.exc # "" THEN Escaped(target.exc, <<>>)
       ELSE IF ~Truthy(target.val)
       THEN Done(<<"Error: No target address (domain or IP) specified for Nmap scan.">>, <<>>)
       ELSE IF target.val.t # "str" THEN Done(unexpected, <<>>)
       ELSE IF w.nmap = "exit0"
       THEN Done(<<"Nmap scan results for ">> \o target.val.v \o <<":", NewLine>>
                 \o w.stdout, call)
       ELSE IF w.nmap = "exit1"
       THEN LET error_message ==
                    IF w.stderr # <<>> THEN w.stderr
                    ELSE <<"'nmap' command failed with return code ", "1",
                           ". Is 'nmap' installed and in PATH?">>
            IN Done(<<"Error running Nmap scan for ">> \o target.val.v \o <<": ">>
                    \o error_message, call)
       ELSE IF w.nmap = "FileNotFoundError"
       THEN Done(<<"Error: 'nmap' command not found. Please ensure it is installed and in your system's PATH.">>, call)
       ELSE IF w.nmap = "TimeoutExpired"
       THEN Done(<<"Error: Nmap command for '">> \o target.val.v
                 \o <<"' ", "timed out", " after 120 seconds.">>, call \o call)
       ELSE Done(unexpected, call)

RunNmap_timeout_is_unexpected(entities, w) ==
    LET target == DictGet(entities, "target_address", None)
        call == <<Call("subprocess.run", <<S("nmap"), target.val>>)>>
        unexpected == <<"Error: An unexpected error occurred during Nmap scan for '">>
                      \o Fmt(target.val) \o <<"'. ", "<error>">>
    IN IF target.exc # "" THEN Escaped(target.exc, <<>>)
       ELSE IF ~Truthy(target.val)
       THEN Done(<<"Error: No target address (domain or IP) specified for Nmap scan.">>, <<>>)
       ELSE IF target.val.t # "str" THEN Done(unexpected, <<>>)
       ELSE IF w.nmap = "exit0"
       THEN Done(<<"Nmap scan results for ">> \o target.val.v \o <<":", NewLine>>
                 \o w.stdout, call)
       ELSE IF w.nmap = "exit1"
       THEN LET error_message ==
                    IF w.stderr # <<>> THEN w.stderr
                    ELSE <<"'nmap' command failed with return code ", "1",
                           ". Is 'nmap' installed and in PATH?">>
            IN Done(<<"Error running Nmap scan for ">> \o target.val.v \o <<": ">>
                    \o error_message, call)
       ELSE IF w.nmap = "FileNotFoundError"
       THEN Done(<<"Error: 'nmap' command not found. Please ensure it is installed and in your system's PATH.">>, call)
       ELSE Done(unexpected, call)

\* the run_nmap branch
RunNmap(entities, w) ==
    LET target == DictGet(entities, "target_address", None)
        call == <<Call("subprocess.run", <<S("nmap"), target.val>>)>>
        unexpected == <<"Error: An unexpected error occurred during Nmap scan for '">>
                      \o Fmt(target.val) \o <<"'. ", "<error>">>
    IN IF target.exc # "" THEN Escaped(target.exc, <<>>)
       ELSE IF ~Truthy(target.val)
       THEN Done(<<"Error: No target address (domain or IP) specified for Nmap scan.">>, <<>>)
       ELSE IF target.val.t # "str" THEN Done(unexpected, <<>>)
       ELSE IF w.nmap = "exit0"
       THEN Done(<<"Nmap scan results for ">> \o target.val.v \o <<":", NewLine>>
                 \o w.stdout, call)
       ELSE IF w.nmap = "exit1"
       THEN LET error_message ==
                    IF w.stderr # <<>> THEN w.stderr
                    ELSE <<"'nmap' command failed with return code ", "1",
                           ". Is 'nmap' installed and in PATH?">>
            IN Done(<<"Error running Nmap scan for ">> \o target.val.v \o <<": ">>
                    \o error_message, call)
       ELSE IF w.nmap = "FileNotFoundError"
       THEN Done(<<"Error: 'nmap' command not found. Please ensure it is installed and in your system's PATH.">>, call)
       ELSE IF w.nmap = "TimeoutExpired"
       THEN Done(<<"Error: Nmap command for '">> \o target.val.v
                 \o <<"' ", "timed out", " after 120 seconds.">>, call)
       ELSE Done(unexpected, call)

Handler_closes_applications(intent, entities, w) ==
    CASE intent = "schedule_meeting" -> ScheduleMeeting(entities, w)
      [] intent = "send_email" -> SendEmail(entities, w)
      [] intent = "send_message" -> SendMessage(entities, w)
      [] intent = "open_application" -> OpenApplication(entities, w)
      [] intent = "close_application" ->
            Done(<<"Attempting to close the application...">>,
                 <<Call("subprocess.run", <<S("taskkill")>>)>>)
      [] intent = "get_current_datetime" -> GetCurrentDatetime(entities, w)
      [] intent = "search_web" -> SearchWeb(entities, w)
      [] intent = "run_whois" -> RunWhois(entities, w)
      [] intent = "run_nmap" -> RunNmap(entities, w)
      [] intent = "unknown" -> Done(<<"Sorry, I didn't understand that request.">>, <<>>)
      [] OTHER -> Done(<<"Action Required: Intent '", intent,
                         "' is recognized but not implemented in the task executor yet.">>, <<>>)

\* the if/elif chain over the intent
Handler(intent, entities, w) ==
    CASE intent = "schedule_meeting" -> ScheduleMeeting(entities, w)
      [] intent = "send_email" -> SendEmail(entities, w)
      [] intent = "send_message" -> SendMessage(entities, w)
      [] intent = "open_application" -> OpenApplication(entities, w)
      [] intent = "get_current_datetime" -> GetCurrentDatetime(entities, w)
      [] intent = "search_web" -> SearchWeb(entities, w)
      [] intent = "run_whois" -> RunWhois(entities, w)
      [] intent = "run_nmap" -> RunNmap(entities, w)
      [] intent = "unknown" -> Done(<<"Sorry, I didn't understand that request.">>, <<>>)
      [] OTHER -> Done(<<"Action Required: Intent '", intent,
                         "' is recognized but not implemented in the task executor yet.">>, <<>>)

CriticalError(intent) ==
    <<"An unexpected critical error occurred while processing your request for '",
      intent, "'.">>

\* nlu_result.get('intent', 'unknown') and nlu_result.get('entities', {})
IntentOf(nlu) == IF "intent" \in DOMAIN nlu THEN nlu.intent ELSE "unknown"
EntitiesOf(nlu) == IF "entities" \in DOMAIN nlu THEN nlu.entities ELSE Dict(<<>>)

execute_task_index_errors_escape(nlu, w) ==
    LET out == Handler(IntentOf(nlu), EntitiesOf(nlu), w)
    IN IF out.raised \in {"", "IndexError"} THEN out
       ELSE Done(CriticalError(IntentOf(nlu)), out.calls)

\* the handler runs inside try/except Exception: whatever escapes it becomes
\* the critical-error string
execute_task(nlu, w) ==
    LET out == Handler(IntentOf(nlu), EntitiesOf(nlu), w)
    IN IF out.raised = "" THEN out
       ELSE Done(CriticalError(IntentOf(nlu)), out.calls)


(***************************************************************************)
(* The conversation loops.  A turn's record says what the turn did:        *)
(*   nlu_calls, exec_calls, gen_calls   how often NLUProcessor.process,    *)
(*       TaskExecutor.execute_task and LLMInterface.generate were called   *)
(*   shown      the texts written to the user, in order                    *)
(*   spoken     the texts handed to speak_text, in order                   *)
(*   response   the final response, None when the turn produced none       *)
(*   tts        what speak_text does in this turn: "ok" or "raises"        *)
(*   appended   whether add_short_term was called                          *)
(*   nlp        what self.nlp did with the turn's text                     *)
(***************************************************************************)
\* actionable_intents of CommandLineInterface.run
CliActionable ==
    {"schedule_meeting", "send_email", "send_message", "open_application",
     "close_application", "search_web", "set_reminder", "schedule_event",
     "get_current_datetime", "run_whois", "run_nmap"}

SentenceEnds == {".", "!", "?"}

TaskExecuted_only_on_error(is_task, is_error) == is_error

\* task_executed is set by the task branch and by the NLU-error branch
TaskExecuted(is_task, is_error) == is_task \/ is_error

\* the loop over the generated fragments: each is printed; a fragment that
\* ends a sentence has the sentence so far handed to speak_text
RECURSIVE Stream(_, _, _, _, _)
Stream(fragments, tts, current_sentence, shown, spoken) ==
    IF fragments = <<>>
    THEN LET final_sentence_part == Strip(current_sentence)
         IN IF final_sentence_part # <<>>
            THEN [shown |-> shown \o (IF tts = "raises"
                                      THEN <<NewLine, "(TTS failed for final part)">>
                                      ELSE <<>>) \o <<NewLine>>,
                  spoken |-> Append(spoken, final_sentence_part)]
            ELSE [shown |-> Append(shown, NewLine), spoken |-> spoken]
    ELSE LET token == Head(fragments)
             sentence == Append(current_sentence, token)
             ends == token \in SentenceEnds
             sentence_to_speak == Strip(sentence)
             speaks == ends /\ sentence_to_speak # <<>>
         IN Stream(Tail(fragments), tts,
                   IF ends THEN <<>> ELSE sentence,
                   Append(shown, token)
                     \o (IF speaks /\ tts = "raises"
                         THEN <<NewLine, "(TTS failed for sentence)">> ELSE <<>>),
                   IF speaks THEN Append(spoken, sentence_to_speak) ELSE spoken)

\* what input() gave, parsed: the user's text is the text of the tokens
InputText(d) == Str(Join(Texts(d.tokens)))

\* the response of a turn: the task's result, the NLU error text, or the
\* generated text
FinalResponse(result, out, generated, is_task, is_error) ==
    IF is_task THEN Str(out.result)
    ELSE IF is_error
    THEN (IF "error" \in DOMAIN result THEN result.error
          ELSE S("An NLU processing error occurred."))
    ELSE Str(generated)

CliRespond_tts_failure_aborts(d, intent, is_task, task_executed, out, final_response, streamed, tts, context) ==
    [ui |-> "cli", event |-> "turn", nlp |-> "", tts |-> "",
     input |-> InputText(d), intent |-> intent,
     nlu_calls |-> 1,
     exec_calls |-> IF is_task THEN 1 ELSE 0,
     gen_calls |-> IF task_executed THEN 0 ELSE 1,
     calls |-> IF is_task THEN out.calls ELSE <<>>,
     context |-> context,
     shown |-> IF tts = "raises"
               THEN <<"Assistant: Sorry, an internal error occurred. Please check the logs.">>
               ELSE IF task_executed THEN <<"Assistant: ">> \o final_response.v
               ELSE streamed.shown,
     spoken |-> IF task_executed
                THEN (IF Truthy(final_response) THEN <<final_response.v>> ELSE <<>>)
                ELSE streamed.spoken,
     response |-> final_response,
     appended |-> tts # "raises"]

CliRespond_remembers_generated_only(d, intent, is_task, task_executed, out, final_response, streamed, tts, context) ==
    [ui |-> "cli", event |-> "turn", nlp |-> "", tts |-> "",
     input |-> InputText(d), intent |-> intent,
     nlu_calls |-> 1,
     exec_calls |-> IF is_task THEN 1 ELSE 0,
     gen_calls |-> IF task_executed THEN 0 ELSE 1,
     calls |-> IF is_task THEN out.calls ELSE <<>>,
     context |-> context,
     shown |-> IF task_executed
               THEN <<"Assistant: ">> \o final_response.v
                    \o (IF Truthy(final_response) /\ tts = "raises"
                        THEN <<"(TTS failed to play task response)">> ELSE <<>>)
               ELSE streamed.shown,
     spoken |-> IF task_executed
                THEN (IF Truthy(final_response) THEN <<final_response.v>> ELSE <<>>)
                ELSE streamed.spoken,
     response |-> final_response,
     appended |-> ~task_executed]

\* the second half of a CLI iteration: generate and stream, or print and
\* speak the response; then add_short_term
CliRespond(d, intent, is_task, task_executed, out, final_response, streamed, tts, context) ==
    [ui |-> "cli", event |-> "turn", nlp |-> "", tts |-> "",
     input |-> InputText(d), intent |-> intent,
     nlu_calls |-> 1,
     exec_calls |-> IF is_task THEN 1 ELSE 0,
     gen_calls |-> IF task_executed THEN 0 ELSE 1,
     calls |-> IF is_task THEN out.calls ELSE <<>>,
     context |-> context,
     shown |-> IF task_executed
               THEN <<"Assistant: ">> \o final_response.v
                    \o (IF Truthy(final_response) /\ tts = "raises"
                        THEN <<"(TTS failed to play task response)">> ELSE <<>>)
               ELSE streamed.shown,
     spoken |-> IF task_executed
                THEN (IF Truthy(final_response) THEN <<final_response.v>> ELSE <<>>)
                ELSE streamed.spoken,
     response |-> final_response,
     appended |-> TRUE]

\* the first half: the branch on the intent of the NLU result
CliBranch(d, result, is_task, is_error, w, generated, tts, mem) ==
    LET out == IF is_task THEN execute_task(result, w) ELSE Done(<<>>, <<>>)
    IN CliRespond(d, IntentOf(result), is_task, TaskExecuted(is_task, is_error), out,
                  FinalResponse(result, out, generated, is_task, is_error),
                  Stream(generated, tts, <<>>, <<"Assistant: ">>, <<>>), tts,
                  get_short_term_context(mem))

IsTask(result, actionable) == IntentOf(result) \in actionable
IsError(result, actionable) ==
    IntentOf(result) \notin actionable /\ IntentOf(result) = "error"

\* one iteration of CommandLineInterface.run on a non-empty input that is
\* not quit/exit
CliTurn(d, result, w, generated, tts, mem, actionable) ==
    CliBranch(d, result, IsTask(result, actionable), IsError(result, actionable),
              w, generated, tts, mem)

StreamlitRespond(d, intent, is_task, is_error, task_executed, out, final_response_for_memory, context) ==
    [ui |-> "streamlit", event |-> "turn", nlp |-> "", tts |-> "",
     input |-> InputText(d), intent |-> intent,
     nlu_calls |-> 1,
     exec_calls |-> IF is_task THEN 1 ELSE 0,
     gen_calls |-> IF task_executed THEN 0 ELSE 1,
     calls |-> IF is_task THEN out.calls ELSE <<>>,
     context |-> IF task_executed THEN <<>> ELSE context,
     shown |-> (IF is_error THEN <<"NLU Error: ">> ELSE <<>>)
               \o final_response_for_memory.v,
     spoken |-> IF Truthy(final_response_for_memory)
                THEN <<final_response_for_memory.v>> ELSE <<>>,
     response |-> final_response_for_memory,
     appended |-> TRUE]

StreamlitBranch(d, result, is_task, is_error, w, generated, mem) ==
    LET out == IF is_task THEN execute_task(result, w) ELSE Done(<<>>, <<>>)
    IN StreamlitRespond(d, IntentOf(result), is_task, is_error,
                        TaskExecuted(is_task, is_error), out,
                        FinalResponse(result, out, generated, is_task, is_error),
                        get_short_term_context(mem))

\* one run of the Streamlit script on a submitted prompt
StreamlitTurn(d, result, w, generated, tts, mem, actionable) ==
    StreamlitBranch(d, result, IsTask(result, actionable), IsError(result, actionable),
                    w, generated, mem)

\* an iteration that ends before NLU: quit/exit, an empty line, Ctrl-C, or
\* input() raising
CliNoTurn(event, shown) ==
    [ui |-> "cli", event |-> event, nlp |-> "", tts |-> "",
     input |-> None, intent |-> "",
     nlu_calls |-> 0, exec_calls |-> 0, gen_calls |-> 0, calls |-> <<>>,
     context |-> <<>>, shown |-> shown, spoken |-> <<>>, response |-> None,
     appended |-> FALSE]


(***************************************************************************)
(* Bounded inputs                                                          *)
(***************************************************************************)
MaxDocLen == 2      \* longest token sequence enumerated over the vocabulary
MaxKeys == 2        \* most keys present in an enumerated entity bag
MaxLimit == 3       \* largest short_term_limit of the memory runs
MaxAdds == 4        \* most add_short_term calls of the memory runs
MaxLoopLimit == 1   \* largest short_term_limit of the conversation runs

Vocabulary ==
    {Tok("schedule", "schedule", "VERB", {}),
     Tok("meeting", "meeting", "NOUN", {}),
     Tok("send", "send", "VERB", {}),
     Tok("email", "email", "NOUN", {}),
     Tok("message", "message", "NOUN", {}),
     Tok("open", "open", "VERB", {}),
     Tok("chrome", "chrome", "ADJ", {}),
     Tok("Now", "now", "ADV", {"title", "stop"}),
     Tok("the", "the", "DET", {"stop"}),
     Tok("for", "for", "ADP", {"stop"}),
     Tok("search", "search", "VERB", {}),
     Tok("remind", "remind", "VERB", {}),
     Tok("close", "close", "VERB", {}),
     Tok("today", "today", "NOUN", {}),
     Tok("nmap", "nmap", "PROPN", {}),
     Tok("whois", "whois", "VERB", {}),
     Tok("192.168.1.1", "192.168.1.1", "NUM", {"num"}),
     Tok("google.com", "google.com", "X", {}),
     Tok("bob@example.com", "bob@example.com", "X", {"email"}),
     Tok(".", ".", "PUNCT", {"punct"}),
     Tok(Blank, Blank, "SPACE", {}),
     Tok("quickly", "quickly", "ADV", {})}

Ent(label, text) == [label |-> label, text |-> text]

\* what the named-entity recogniser may have found
EntChoices ==
    {<<>>,
     <<Ent("PERSON", <<"Bob">>), Ent("DATE", <<"next", Blank, "Tuesday">>),
       Ent("TIME", <<"3", Blank, "PM">>)>>,
     <<Ent("ORG", <<"Chrome">>), Ent("GPE", <<"Paris">>)>>}

TokenSeqs(n) == UNION {[1..k -> Vocabulary] : k \in 0..n}

Word(text, pos) == Tok(text, text, pos, {})

\* longer utterances: the examples of the source and of the specification
SampleTokenSeqs ==
    {<<Word("nmap", "PROPN"), Word("scan", "NOUN"), Tok("on", "on", "ADP", {"stop"}),
       Tok("192.168.1.1", "192.168.1.1", "NUM", {"num"})>>,
     <<Word("search", "VERB"), Tok("for", "for", "ADP", {"stop"}), Word("best", "ADJ"),
       Word("pizza", "NOUN"), Word("recipe", "NOUN")>>,
     <<Word("open", "VERB"), Tok("the", "the", "DET", {"stop"}), Word("search", "NOUN"),
       Word("page", "NOUN"), Word("quickly", "ADV"), Word("please", "INTJ")>>,
     <<Word("search", "VERB"), Tok("on", "on", "ADP", {"stop"}),
       Tok("the", "the", "DET", {"stop"}), Tok("it", "it", "PRON", {"stop"}),
       Tok(Blank, Blank, "SPACE", {}), Word("pizza", "NOUN"), Word("recipe", "NOUN")>>,
     <<Word("open", "VERB"), Word("chrome", "NOUN"), Word("browser", "NOUN"),
       Word("window", "NOUN"), Tok("now", "now", "ADV", {"stop"}), Word("please", "INTJ")>>,
     <<Word("open", "VERB"), Tok("Zoom", "zoom", "VERB", {"title"})>>,
     <<Word("nmap", "PROPN"), Word("google.com", "X"),
       Tok("192.168.1.1", "192.168.1.1", "NUM", {"num"})>>,
     <<Word("send", "VERB"), Word("email", "NOUN"), Word("open", "VERB"),
       Tok("Chrome", "chrome", "PROPN", {"title"}), Word("search", "VERB"),
       Word("today", "NOUN"), Word("nmap", "PROPN"), Word("book", "VERB"),
       Word("meeting", "NOUN")>>,
     <<Word("remind", "VERB"), Word("close", "VERB"), Word("whois", "VERB"),
       Word("message", "NOUN"), Word("send", "VERB"),
       Tok("arranged", "arrange", "VERB", {}), Tok("meetings", "meeting", "NOUN", {})>>}

Docs ==
    {[tokens |-> t, ents |-> e] : t \in TokenSeqs(MaxDocLen) \cup SampleTokenSeqs,
                                  e \in EntChoices}

\* the utterances of the conversation runs
Utterance(tokens, ents) == [tokens |-> tokens, ents |-> ents]
Utterances ==
    {Utterance(<<Word("schedule", "VERB"), Word("meeting", "NOUN")>>,
               <<Ent("PERSON", <<"Bob">>), Ent("DATE", <<"2024-07-28T10:00:00">>)>>),
     Utterance(<<Word("send", "VERB"), Word("email", "NOUN"),
                 Tok("bob@example.com", "bob@example.com", "X", {"email"})>>, <<>>),
     Utterance(<<Word("open", "VERB"), Word("chrome", "NOUN")>>, <<>>),
     Utterance(<<Word("close", "VERB"), Word("chrome", "NOUN")>>, <<>>),
     Utterance(<<Word("search", "VERB"), Word("pizza", "NOUN")>>, <<>>),
     Utterance(<<Word("nmap", "PROPN"), Word("scan", "NOUN")>>, <<>>),
     Utterance(<<Word("whois", "VERB"), Word("google.com", "X")>>, <<>>),
     Utterance(<<Word("hello", "INTJ")>>, <<>>)}

\* the entity keys execute_task reads, and the shapes a value may have
EntityKeys ==
    {"person", "datetime", "email_address", "subject", "body", "message_body",
     "object_name", "search_query", "target_address"}

ValueShapes ==
    {S("alpha"), Str(<<>>), List(<<>>), List(<<S("beta.exe")>>)}

\* a datetime entity may also be a text the calendar service can parse
ShapesFor(key) ==
    IF key = "datetime"
    THEN (ValueShapes \ {List(<<S("beta.exe")>>)}) \cup {S("2024-07-28T10:00:00")}
    ELSE ValueShapes

Bags ==
    {None} \cup
    {Dict(f) : f \in UNION {{g \in [ks -> ValueShapes \cup ShapesFor("datetime")] :
                                \A k \in ks : g[k] \in ShapesFor(k)} :
                            ks \in {k \in SUBSET EntityKeys : Cardinality(k) <= MaxKeys}}}

IntentLabels ==
    {"schedule_meeting", "send_email", "send_message", "open_application",
     "get_current_datetime", "search_web", "run_whois", "run_nmap", "unknown",
     "unknown_intent", "set_reminder", "schedule_event", "close_application",
     "error", "tell_joke"}

\* NLU result mappings: with or without the intent and entities keys
NluInputs ==
    {[intent |-> i, entities |-> b] : i \in IntentLabels, b \in Bags}
    \cup {[entities |-> b] : b \in Bags}
    \cup {[intent |-> i] : i \in IntentLabels}

Topic(text) == Dict([k \in {"Text"} |-> Str(text)])
Group == Dict([k \in {"Name"} |-> S("Category")])
Json(f) == Dict(f)

SearchResponses ==
    {Json(<<>>),
     Json([k \in {"AbstractText", "AbstractSource", "AbstractURL", "Answer"} |->
             CASE k = "AbstractText" -> Str(<<"Pizza", Blank, "is", Blank, "food">>)
               [] k = "AbstractSource" -> S("Wikipedia")
               [] k = "AbstractURL" -> S("https://en.wikipedia.org/wiki/Pizza")
               [] OTHER -> S("42")]),
     Json([k \in {"AbstractText", "Definition", "DefinitionSource"} |->
             CASE k = "AbstractText" -> Str(<<>>)
               [] k = "Definition" -> S("a dish")
               [] OTHER -> S("Dictionary")]),
     Json([k \in {"Answer", "RelatedTopics"} |->
             IF k = "Answer" THEN S("42") ELSE List(<<Topic(<<"Pizza Hut">>)>>)]),
     Json([k \in {"RelatedTopics"} |->
             List(<<Topic(<<"one">>), Group, Topic(<<"three">>), Topic(<<"four">>),
                    Topic(<<"five">>), Topic(<<"six">>)>>)]),
     Json([k \in {"RelatedTopics"} |-> List(<<Group>>)]),
     Json([k \in {"Definition", "DefinitionSource", "DefinitionURL", "Answer",
                  "RelatedTopics"} |->
             CASE k = "Definition" -> S("a dish")
               [] k = "DefinitionSource" -> S("Dictionary")
               [] k = "DefinitionURL" -> S("https://dictionary.example/pizza")
               [] k = "Answer" -> S("42")
               [] OTHER -> List(<<Topic(<<"Pizza Hut">>)>>)]),
     List(<<>>)}

\* every collaborator behaves
BaseWorld ==
    [calendar_ready |-> TRUE, insert |-> "ok",
     email_configured |-> TRUE, smtp |-> "ok",
     os_name |-> "nt", startfile |-> <<"ok", "ok">>,
     http |-> "ok",
     data |-> Json([k \in {"Answer"} |-> S("42")]),
     whois |-> "found",
     whois_items |-> <<<<"domain_name", "GOOGLE.COM">>, <<"registrar", "MarkMonitor">>>>,
     nmap |-> "exit0",
     stdout |-> <<"Host is up", NewLine, "80/tcp open">>,
     stderr |-> <<>>,
     now |-> <<"Sunday, July 28, 2024 at 10:00 AM">>]

CalendarWorlds ==
    {[BaseWorld EXCEPT !.calendar_ready = r, !.insert = i] :
        r \in BOOLEAN, i \in {"ok", "HttpError", "Exception"}}
EmailWorlds ==
    {[BaseWorld EXCEPT !.email_configured = c, !.smtp = o] :
        c \in BOOLEAN,
        o \in {"ok", "SMTPAuthenticationError", "SMTPServerDisconnected",
               "SMTPConnectError", "Exception"}}
LaunchOutcomes == {"ok", "FileNotFoundError", "OSError", "Exception"}
LaunchWorlds ==
    {[BaseWorld EXCEPT !.os_name = n, !.startfile = <<a, b>>] :
        n \in {"nt", "posix"}, a \in LaunchOutcomes, b \in LaunchOutcomes}
SearchWorlds ==
    {[BaseWorld EXCEPT !.http = h, !.data = d] :
        h \in {"ok", "RequestException"} \cup ParseFailures, d \in SearchResponses}
WhoisWorlds ==
    {[BaseWorld EXCEPT !.whois = o] :
        o \in {"found", "empty", "no_match", "PywhoisError", "Exception"}}
NmapWorlds ==
    {[BaseWorld EXCEPT !.nmap = o, !.stdout = so, !.stderr = se] :
        o \in {"exit0", "exit1", "FileNotFoundError", "TimeoutExpired", "Exception"},
        so \in {<<>>, <<"Host is up", NewLine, "80/tcp open">>,
                <<"Error: Nmap command for '", "alpha", "' ", "timed out">>},
        se \in {<<>>, <<"Failed to resolve">>}}

\* the worlds a task is run in: the collaborator its intent is about takes
\* every behaviour, the others behave
WorldsFor(intent) ==
    CASE intent = "schedule_meeting" -> CalendarWorlds
      [] intent = "send_email" -> EmailWorlds
      [] intent = "open_application" -> LaunchWorlds
      [] intent = "search_web" -> SearchWorlds
      [] intent = "run_whois" -> WhoisWorlds
      [] intent = "run_nmap" -> NmapWorlds
      [] OTHER -> {BaseWorld}

\* the worlds of the conversation runs: all well, or every collaborator failing
FailingWorld ==
    [BaseWorld EXCEPT !.calendar_ready = FALSE, !.smtp = "SMTPConnectError",
                      !.startfile = <<"FileNotFoundError", "FileNotFoundError">>,
                      !.http = "RequestException", !.whois = "PywhoisError",
                      !.nmap = "TimeoutExpired"]
LoopWorlds == {BaseWorld, FailingWorld}

\* what LLMInterface.generate returns, character by character
Generations ==
    {<<"Hello", ".", Blank, "Bye">>, <<"Error: LLM not available", ".">>}

\* the turns of the memory runs
TurnUsers == {S("hi"), S("scan")}
TurnAnswers == {S("hello"), Str(<<>>)}


(***************************************************************************)
(* State machines                                                          *)
(***************************************************************************)
NoDoc == [tokens |-> <<>>, ents |-> <<>>]
NotCalled == [intent |-> "(not called)"]
NoTask == [nlu |-> NotCalled, world |-> BaseWorld, state |-> "idle",
           out |-> Done(<<>>, <<>>)]
NoTurn == CliNoTurn("start", <<>>)

\* ---- NLUProcessor.process applied to a parsed utterance
InitNLU ==
    /\ doc \in Docs
    /\ nlp_state \in {"loaded", "missing", "failing"}
    /\ nlu_result = NotCalled
    /\ short_term_memory = <<>> /\ short_term_limit = 0 /\ added = <<>>
    /\ task = NoTask /\ turn = NoTurn /\ actionable_intents = {} /\ pc = "nlu"

Process ==
    /\ pc = "nlu"
    /\ nlu_result = NotCalled
    /\ nlu_result' = process(doc, nlp_state)
    /\ UNCHANGED <<short_term_memory, short_term_limit, added, doc, nlp_state,
                   task, turn, actionable_intents, pc>>

NextNLU == Process
SpecNLU == InitNLU /\ [][NextNLU]_vars

\* ---- TaskExecutor.execute_task applied to an NLU result in a world
InitExec ==
    /\ \E nlu \in NluInputs : \E w \in WorldsFor(IntentOf(nlu)) :
           task = [nlu |-> nlu, world |-> w, state |-> "called", out |-> Done(<<>>, <<>>)]
    /\ doc = NoDoc /\ nlp_state = "loaded" /\ nlu_result = NotCalled
    /\ short_term_memory = <<>> /\ short_term_limit = 0 /\ added = <<>>
    /\ turn = NoTurn /\ actionable_intents = {} /\ pc = "exec"

ExecuteTask ==
    /\ pc = "exec"
    /\ task.state = "called"
    /\ LET out == execute_task(task.nlu, task.world)
       IN task' = [task EXCEPT !.state = IF out.raised = "" THEN "returned" ELSE "raised",
                               !.out = out]
    /\ UNCHANGED <<short_term_memory, short_term_limit, added, doc, nlp_state,
                   nlu_result, turn, actionable_intents, pc>>

NextExec == ExecuteTask
SpecExec == InitExec /\ [][NextExec]_vars

\* ---- MemoryManager: add_short_term and get_short_term_context calls
InitMem ==
    /\ short_term_memory = <<>>
    /\ short_term_limit \in 0..MaxLimit
    /\ added = <<>>
    /\ doc = NoDoc /\ nlp_state = "loaded" /\ nlu_result = NotCalled
    /\ task = NoTask /\ turn = NoTurn /\ actionable_intents = {} /\ pc = "memory"

AddShortTerm ==
    /\ pc = "memory"
    /\ Len(added) < MaxAdds
    /\ \E u \in TurnUsers, a \in TurnAnswers :
        /\ short_term_memory' = add_short_term(short_term_memory, short_term_limit, u, a)
        /\ added' = Append(added, [user |-> u, assistant |-> a])
    /\ turn' = [NoTurn EXCEPT !.event = "add_short_term"]
    /\ UNCHANGED <<short_term_limit, doc, nlp_state, nlu_result, task,
                   actionable_intents, pc>>

GetShortTermContext ==
    /\ pc = "memory"
    /\ turn' = [NoTurn EXCEPT !.event = "get_short_term_context",
                              !.context = get_short_term_context(short_term_memory)]
    /\ UNCHANGED <<short_term_memory, short_term_limit, added, doc, nlp_state,
                   nlu_result, task, actionable_intents, pc>>

NextMem == AddShortTerm \/ GetShortTermContext
SpecMem == InitMem /\ [][NextMem]_vars

\* ---- CalendarService.schedule_event applied to its arguments in a world
CalendarSummaries == {<<"Meeting with ", "Bob">>, <<"Meeting with ", "Someone">>}
CalendarStarts ==
    {S("2024-07-28T10:00:00"), S("tomorrow"), S("an unspecified time"), Str(<<>>), None}
CalendarEnds == {None, Str(<<>>), S("2024-07-28T11:00:00"), S("later")}

InitCal ==
    /\ \E summary \in CalendarSummaries, start \in CalendarStarts, end \in CalendarEnds,
          w \in CalendarWorlds :
           task = [args |-> [summary |-> summary, start_datetime |-> start,
                             end_datetime |-> end],
                   world |-> w, state |-> "called", out |-> Done(<<>>, <<>>)]
    /\ doc = NoDoc /\ nlp_state = "loaded" /\ nlu_result = NotCalled
    /\ short_term_memory = <<>> /\ short_term_limit = 0 /\ added = <<>>
    /\ turn = NoTurn /\ actionable_intents = {} /\ pc = "calendar"

ScheduleEvent ==
    /\ pc = "calendar"
    /\ task.state = "called"
    /\ LET out == schedule_event(task.args.summary, task.args.start_datetime,
                                 task.args.end_datetime, task.world)
       IN task' = [task EXCEPT !.state = IF out.raised = "" THEN "returned" ELSE "raised",
                               !.out = out]
    /\ UNCHANGED <<short_term_memory, short_term_limit, added, doc, nlp_state,
                   nlu_result, turn, actionable_intents, pc>>

NextCal == ScheduleEvent
SpecCal == InitCal /\ [][NextCal]_vars

\* ---- the conversation loops
\* the Streamlit script reads the list from config['nlu']['actionable_intents']
\* and uses the empty list when the key is missing
ConfiguredActionable == {CliActionable, {}, {"run_nmap", "search_web"}}

Init ==
    /\ short_term_memory = <<>>
    /\ short_term_limit \in 0..MaxLoopLimit
    /\ added = <<>>
    /\ doc = NoDoc
    /\ nlp_state \in {"loaded", "missing"}
    /\ nlu_result = NotCalled
    /\ task = NoTask
    /\ turn = NoTurn
    /\ \/ pc = "cli" /\ actionable_intents = CliActionable
       \/ pc = "streamlit" /\ actionable_intents \in ConfiguredActionable

\* what self.nlp does with this turn's text
NlpOutcomes == IF nlp_state = "missing" THEN {"missing"} ELSE {"loaded", "failing"}

Turn(ui) ==
    /\ pc = ui
    /\ \E d \in Utterances, nlp \in NlpOutcomes, w \in LoopWorlds,
          generated \in Generations, tts \in {"ok", "raises"} :
        /\ doc' = d
        /\ nlu_result' = process(d, nlp)
        /\ turn' = [(IF ui = "cli"
                     THEN CliTurn(d, nlu_result', w, generated, tts, short_term_memory,
                                  actionable_intents)
                     ELSE StreamlitTurn(d, nlu_result', w, generated, tts,
                                        short_term_memory, actionable_intents))
                    EXCEPT !.nlp = nlp, !.tts = tts]
        /\ short_term_memory' =
              IF turn'.appended
              THEN add_short_term(short_term_memory, short_term_limit,
                                  turn'.input, turn'.response)
              ELSE short_term_memory
    /\ UNCHANGED <<short_term_limit, added, nlp_state, task, actionable_intents, pc>>

CliTurnStep == Turn("cli")
StreamlitTurnStep == Turn("streamlit")

\* an empty line: the loop continues with the next input
CliEmpty ==
    /\ pc = "cli"
    /\ turn' = CliNoTurn("empty", <<>>)
    /\ UNCHANGED <<short_term_memory, short_term_limit, added, doc, nlp_state,
                   nlu_result, task, actionable_intents, pc>>

\* quit or exit in any letter case, or Ctrl-C: the loop is left and the
\* memory manager is closed
CliQuit ==
    /\ pc = "cli"
    /\ \E event \in {"quit", "KeyboardInterrupt"} : turn' = CliNoTurn(event, <<>>)
    /\ pc' = "closed"
    /\ UNCHANGED <<short_term_memory, short_term_limit, added, doc, nlp_state,
                   nlu_result, task, actionable_intents>>

\* input() raises (end of input): the error is reported and the loop goes on
CliInputFails ==
    /\ pc = "cli"
    /\ turn' = CliNoTurn("EOFError",
                         <<"Assistant: Sorry, an internal error occurred. Please check the logs.">>)
    /\ UNCHANGED <<short_term_memory, short_term_limit, added, doc, nlp_state,
                   nlu_result, task, actionable_intents, pc>>

Next ==
    \/ CliTurnStep
    \/ StreamlitTurnStep
    \/ CliEmpty
    \/ CliQuit
    \/ CliInputFails

Spec == Init /\ [][Next]_vars

\* ---- the command-line loop with an input that can reach its end.  pc is
\* "cli_eof" when the loop is about to call input() with standard input at
\* its end, where every input() call raises EOFError, and "cli_eof_reported"
\* when the except Exception clause has reported the failed read.
InitLive == Init /\ pc = "cli"

\* standard input reaches its end
EndOfInput ==
    /\ pc = "cli"
    /\ pc' = "cli_eof"
    /\ UNCHANGED <<short_term_memory, short_term_limit, added, doc, nlp_state,
                   nlu_result, task, turn, actionable_intents>>

\* input() raises EOFError and the except Exception clause reports it
CliInputFailsAtEof ==
    /\ pc = "cli_eof"
    /\ turn' = CliNoTurn("EOFError",
                         <<"Assistant: Sorry, an internal error occurred. Please check the logs.">>)
    /\ pc' = "cli_eof_reported"
    /\ UNCHANGED <<short_term_memory, short_term_limit, added, doc, nlp_state,
                   nlu_result, task, actionable_intents>>

\* the except clause is left and 'while True' starts the next iteration
CliNextIteration ==
    /\ pc = "cli_eof_reported"
    /\ pc' = "cli_eof"
    /\ UNCHANGED <<short_term_memory, short_term_limit, added, doc, nlp_state,
                   nlu_result, task, turn, actionable_intents>>

\* Ctrl-C while the loop runs at the end of input
CliInterruptedAtEof ==
    /\ pc \in {"cli_eof", "cli_eof_reported"}
    /\ turn' = CliNoTurn("KeyboardInterrupt", <<>>)
    /\ pc' = "closed"
    /\ UNCHANGED <<short_term_memory, short_term_limit, added, doc, nlp_state,
                   nlu_result, task, actionable_intents>>

NextLive ==
    \/ CliTurnStep
    \/ CliEmpty
    \/ CliQuit
    \/ EndOfInput
    \/ CliInputFailsAtEof
    \/ CliNextIteration
    \/ CliInterruptedAtEof

\* the loop runs on its own: a step that needs no line from the user is
\* eventually made; lines and interrupts come when the user sends them
SpecLive ==
    InitLive /\ [][NextLive]_vars
    /\ WF_vars(CliInputFailsAtEof) /\ WF_vars(CliNextIteration)


(***************************************************************************)
(* Properties                                                              *)
(***************************************************************************)
\* sub occurs in s as a contiguous run
Contains(s, sub) ==
    \E i \in 0..(Len(s) - Len(sub)) : SubSeq(s, i + 1, i + Len(sub)) = sub

TaskIntent == IntentOf(task.nlu)
TaskEntities == EntitiesOf(task.nlu)
Absent(key) == TaskEntities.t = "dict" /\ key \notin DOMAIN TaskEntities.v

\* C1: execute_task never raises; it returns a string for every NLU result
\* mapping and every behaviour of the collaborators, and when an error
\* escapes the handler the string is the critical-error message naming the
\* intent.
C1_ExecuteTaskNeverRaises ==
    task.state # "called" =>
        /\ task.state = "returned"
        /\ task.out.raised = ""
        /\ Handler(TaskIntent, TaskEntities, task.world).raised # ""
              => task.out.result = CriticalError(TaskIntent)

\* an empty person list made the schedule_meeting handler raise IndexError
C1_Witness ==
    /\ task.state = "returned"
    /\ TaskIntent = "schedule_meeting"
    /\ TaskEntities.t = "dict"
    /\ "person" \in DOMAIN TaskEntities.v
    /\ TaskEntities.v["person"] = List(<<>>)
    /\ task.out.result = CriticalError("schedule_meeting")

\* the rule table of the intent classifier, as the specification gives it
RuleHolds(k, d) ==
    CASE k = 1 -> "meeting" \in LemmaSet(d)
                  /\ AnyLemma(d, {"schedule", "book", "set up", "arrange"})
      [] k = 2 -> AnyLemma(d, {"email", "mail"}) /\ "send" \in LemmaSet(d)
      [] k = 3 -> AnyLemma(d, {"message", "note"}) /\ "send" \in LemmaSet(d)
      [] k = 4 -> \E i \in 1..(Len(d.tokens) - 1) :
                      /\ d.tokens[i].lemma \in {"open", "launch", "start"}
                      /\ \/ d.tokens[i + 1].pos \in {"NOUN", "PROPN", "X"}
                         \/ "title" \in d.tokens[i + 1].flags
                         \/ Lower(d.tokens[i + 1].text) \in
                              {"chrome", "firefox", "edge", "notepad", "calculator"}
      [] k = 5 -> AnyLemma(d, {"search", "find", "look up", "google"})
      [] k = 6 -> AnyLemma(d, {"reminder", "remind"})
      [] k = 7 -> AnyLemma(d, {"close", "exit", "quit"})
      [] k = 8 -> AnyLemma(d, {"date", "time", "day", "today"})
                  /\ ~AnyLemma(d, {"schedule", "meeting", "reminder"})
      [] k = 9 -> AnyLemma(d, {"schedule", "book", "set up"})
      [] k = 10 -> AnyLemma(d, {"send"})
      [] k = 11 -> AnyLemma(d, {"nmap"})
      [] OTHER -> AnyLemma(d, {"whois"})

RuleIntent(k) ==
    CASE k = 1 -> "schedule_meeting"
      [] k = 2 -> "send_email"
      [] k = 3 -> "send_message"
      [] k = 4 -> "open_application"
      [] k = 5 -> "search_web"
      [] k = 6 -> "set_reminder"
      [] k = 7 -> "close_application"
      [] k = 8 -> "get_current_datetime"
      [] k = 9 -> "schedule_event"
      [] k = 10 -> "send_message"
      [] k = 11 -> "run_nmap"
      [] OTHER -> "run_whois"

FirstMatchIntent(d) ==
    IF \E k \in 1..12 : RuleHolds(k, d)
    THEN RuleIntent(CHOOSE k \in 1..12 :
                        RuleHolds(k, d) /\ \A j \in 1..(k - 1) : ~RuleHolds(j, d))
    ELSE "unknown_intent"

\* C2: the classifier returns the intent of the first rule, in the order
\* 1..12, whose condition holds, and unknown_intent exactly when none holds.
C2_FirstMatchingRuleWins ==
    (nlu_result # NotCalled /\ nlp_state = "loaded")
        => nlu_result.intent = FirstMatchIntent(doc)

\* C3: when the entity a handler requires is absent, execute_task returns
\* the handler's error string and no collaborator is called.
C3_MissingEntityNoCall ==
    task.state = "returned" =>
        /\ (TaskIntent = "run_nmap" /\ Absent("target_address")) =>
              /\ task.out.result =
                    <<"Error: No target address (domain or IP) specified for Nmap scan.">>
              /\ task.out.calls = <<>>
        /\ (TaskIntent = "run_whois" /\ Absent("target_address")) =>
              /\ task.out.result =
                    <<"Error: No target address (domain or IP) specified for WHOIS lookup.">>
              /\ task.out.calls = <<>>
        /\ (TaskIntent = "search_web" /\ Absent("search_query")) =>
              /\ task.out.result = <<"Error: No search query specified.">>
              /\ task.out.calls = <<>>
        /\ (TaskIntent = "send_email" /\ Absent("email_address") /\ Absent("person")) =>
              /\ task.out.result = <<"Error: Could not determine recipient for email.">>
              /\ task.out.calls = <<>>
        /\ (TaskIntent = "open_application" /\ Absent("object_name")) =>
              /\ task.out.result = <<"Error: No application name specified.">>
              /\ task.out.calls = <<>>

\* run_nmap was dispatched without a target while nmap itself would have run
C3_Witness ==
    /\ task.state = "returned"
    /\ TaskIntent = "run_nmap"
    /\ Absent("target_address")
    /\ TaskEntities.v # <<>>
    /\ task.world.nmap = "exit0"
    /\ task.out.calls = <<>>

\* the error text of an NLU result is what the loop rendered, and neither
\* the dispatcher nor the generator ran
ErrorRendered ==
    /\ "error" \in DOMAIN nlu_result
    /\ turn.response = nlu_result.error
    /\ Contains(turn.shown, nlu_result.error.v)
    /\ turn.exec_calls = 0
    /\ turn.gen_calls = 0

LastN(seq, n) == SubSeq(seq, Len(seq) - n + 1, Len(seq))
Min(a, b) == IF a <= b THEN a ELSE b

\* C5: after any sequence of add_short_term calls from an empty memory, the
\* length of the short-term memory is at most the configured limit.
C5_LengthAtMostLimit == Len(short_term_memory) <= short_term_limit

\* a call overflowed a positive limit and the oldest turn was evicted
C5_Witness ==
    /\ short_term_limit > 0
    /\ Len(added) > short_term_limit
    /\ Len(short_term_memory) = short_term_limit

\* C6: after n add_short_term calls with limit L the memory holds exactly
\* the last min(n, L) turns added, oldest first, and get_short_term_context
\* returns them in that order.
C6_LastTurnsInArrivalOrder ==
    LET kept == LastN(added, Min(Len(added), short_term_limit))
    IN /\ short_term_memory = kept
       /\ turn.event = "get_short_term_context" => turn.context = kept

\* the context was read after two turns had been evicted from a memory that
\* holds more than one turn
C6_Witness ==
    /\ turn.event = "get_short_term_context"
    /\ short_term_limit >= 2
    /\ Len(added) >= short_term_limit + 2
    /\ turn.context = short_term_memory
    /\ turn.context[1] # turn.context[2]

\* C7: for the classifier's catch-all intent unknown_intent, execute_task
\* returns the fixed apology string and not the 'recognized but not
\* implemented' message.
C7_CatchAllGetsApology ==
    (task.state = "returned" /\ TaskIntent = "unknown_intent")
        => task.out.result = <<"Sorry, I didn't understand that request.">>

\* the collaborator a recorded call belongs to
Kind(fn) ==
    CASE fn \in {"calendar_service.schedule_event", "events.insert"} -> "calendar"
      [] fn \in {"email_service.send_email", "smtp"} -> "email"
      [] OTHER -> fn
Count(calls, fn) == Cardinality({i \in DOMAIN calls : calls[i].fn = fn})
Kinds(calls) == {Kind(calls[i].fn) : i \in DOMAIN calls}

\* C8: one execute_task call invokes at most one kind of collaborator, at
\* most once, except the OS launch, invoked at most twice and the second
\* time only after the first attempt failed with not-found.
C8_NoRetries ==
    task.state # "called" =>
        /\ Cardinality(Kinds(task.out.calls)) <= 1
        /\ \A i \in DOMAIN task.out.calls :
              Count(task.out.calls, task.out.calls[i].fn) <=
                  (IF task.out.calls[i].fn = "os.startfile" THEN 2 ELSE 1)
        /\ Count(task.out.calls, "os.startfile") = 2
              => task.world.startfile[1] = "FileNotFoundError"

\* the launch was tried a second time with the .exe name
C8_Witness ==
    /\ task.state = "returned"
    /\ TaskIntent = "open_application"
    /\ Count(task.out.calls, "os.startfile") = 2

\* the outcome of running nmap on the target: a target that is not a string
\* makes the process execution raise
NmapOutcome(target, w) == IF target.t = "str" THEN w.nmap ELSE "Exception"
NmapTargetPresent ==
    /\ TaskIntent = "run_nmap"
    /\ TaskEntities.t = "dict"
    /\ "target_address" \in DOMAIN TaskEntities.v
    /\ Truthy(TaskEntities.v["target_address"])
NmapTarget == TaskEntities.v["target_address"]

\* C9: run_nmap with a target present returns a message determined by the
\* outcome of the process execution: exit 0 gives the header naming the
\* target and the captured output verbatim, non-zero exit an error naming
\* the target with stderr or the return-code fallback, a missing binary the
\* 'command not found' message, a timeout a message containing the target
\* and 'timed out', any other exception the 'unexpected error' message
\* naming the target; messages of different outcomes differ and no outcome
\* escapes as an exception.
C9_NmapOutcomes ==
    (task.state # "called" /\ NmapTargetPresent) =>
        LET t == Fmt(NmapTarget)
            o == NmapOutcome(NmapTarget, task.world)
            r == task.out.result
        IN /\ task.state = "returned"
           /\ o = "exit0" =>
                 r = <<"Nmap scan results for ">> \o t \o <<":", NewLine>>
                     \o task.world.stdout
           /\ o = "exit1" =>
                 /\ SubSeq(r, 1, Len(t) + 2)
                       = <<"Error running Nmap scan for ">> \o t \o <<": ">>
                 /\ IF task.world.stderr # <<>>
                    THEN SubSeq(r, Len(t) + 3, Len(r)) = task.world.stderr
                    ELSE Contains(r, <<"'nmap' command failed with return code ">>)
           /\ o = "FileNotFoundError" =>
                 r = <<"Error: 'nmap' command not found. Please ensure it is installed and in your system's PATH.">>
           /\ o = "TimeoutExpired" => Contains(r, t) /\ Contains(r, <<"timed out">>)
           /\ o = "Exception" =>
                 /\ r[1] = "Error: An unexpected error occurred during Nmap scan for '"
                 /\ Contains(r, t)
           /\ \A w2 \in NmapWorlds :
                 NmapOutcome(NmapTarget, w2) # o
                    => RunNmap(TaskEntities, w2).result # r

\* nmap timed out on a target and the message says so
C9_Witness ==
    /\ task.state = "returned"
    /\ NmapTargetPresent
    /\ NmapTarget.t = "str"
    /\ task.world.nmap = "TimeoutExpired"
    /\ Contains(task.out.result, <<"timed out">>)

\* C10: process never raises: with the language model unavailable or an
\* error while parsing, classifying or extracting, it returns intent
\* 'error', an empty entity bag and a non-empty error field; the loop then
\* displays the error text, invokes neither dispatcher nor generator and
\* goes on to the next input.
C10_NluErrorsAreResults ==
    (turn.event = "turn" /\ turn.nlp \in {"missing", "failing"}) =>
        /\ nlu_result.intent = "error"
        /\ nlu_result.entities = Dict(<<>>)
        /\ "error" \in DOMAIN nlu_result
        /\ nlu_result.error.t = "str"
        /\ Truthy(nlu_result.error)
        /\ ErrorRendered
        /\ pc = turn.ui

\* parsing raised inside process and the loop rendered the error
C10_Witness ==
    /\ turn.event = "turn"
    /\ turn.nlp = "failing"
    /\ nlu_result.intent = "error"
    /\ Contains(turn.shown, <<"NLU processing failed">>)

\* C11: when the lemma set contains 'meeting' and one of schedule, book,
\* set up, arrange, the classifier returns schedule_meeting, whatever other
\* trigger lemmas are present.
C11_MeetingRuleFirst ==
    (nlu_result # NotCalled /\ nlp_state = "loaded"
     /\ "meeting" \in LemmaSet(doc)
     /\ AnyLemma(doc, {"schedule", "book", "set up", "arrange"}))
        => nlu_result.intent = "schedule_meeting"

\* a meeting request that also carries the send, email and open triggers
C11_Witness ==
    /\ nlu_result # NotCalled
    /\ nlp_state = "loaded"
    /\ {"meeting", "book", "send", "email", "open", "search", "nmap"} \subseteq LemmaSet(doc)
    /\ nlu_result.intent = "schedule_meeting"

\* the value of an entity, or the default when the key is not in the bag
EntityOr(key, default) ==
    IF key \in DOMAIN TaskEntities.v THEN TaskEntities.v[key] ELSE default

\* C12: send_email passes the email_address entity as recipient whenever it
\* is present, whatever the person entity, otherwise the first element of
\* the person list; subject and body take the placeholder defaults when not
\* in the bag; the collaborator is invoked exactly once and its message is
\* returned verbatim; with neither email_address nor person the result is
\* the 'could not determine recipient' error.
C12_EmailRecipient ==
    (task.state # "called" /\ TaskIntent = "send_email" /\ TaskEntities.t = "dict"
     /\ EntityOr("body", S("...")).t = "str") =>
        LET subject == EntityOr("subject", S("Quick Question"))
            body == EntityOr("body", S("..."))
            sent(recipient) ==
                /\ task.state = "returned"
                /\ Count(task.out.calls, "email_service.send_email") = 1
                /\ task.out.calls[1] =
                      Call("email_service.send_email", <<recipient, subject, body>>)
                /\ task.out.result = send_email(recipient, subject, body, task.world).result
        IN /\ (~Absent("email_address") /\ Truthy(TaskEntities.v["email_address"]))
                 => sent(TaskEntities.v["email_address"])
           /\ (Absent("email_address") /\ ~Absent("person")
               /\ TaskEntities.v["person"].t = "list"
               /\ Truthy(TaskEntities.v["person"])
               /\ Truthy(TaskEntities.v["person"].v[1]))
                 => sent(TaskEntities.v["person"].v[1])
           /\ (Absent("email_address") /\ Absent("person"))
                 => /\ task.out.result = <<"Error: Could not determine recipient for email.">>
                    /\ task.out.calls = <<>>

\* C13: schedule_meeting invokes the calendar collaborator exactly once with
\* summary 'Meeting with <first person, or Someone when person is absent>'
\* and the datetime entity string unchanged as start time (the placeholder
\* when the entity is absent), with no end time, and returns the
\* collaborator's message verbatim, for success and for failure.
C13_MeetingPassThrough ==
    (task.state # "called" /\ TaskIntent = "schedule_meeting" /\ TaskEntities.t = "dict"
     /\ (Absent("person")
         \/ (TaskEntities.v["person"].t = "list" /\ Truthy(TaskEntities.v["person"])))
     /\ EntityOr("datetime", S("an unspecified time")).t = "str") =>
        LET person == IF Absent("person") THEN S("Someone") ELSE TaskEntities.v["person"].v[1]
            summary == <<"Meeting with ">> \o Fmt(person)
            start == EntityOr("datetime", S("an unspecified time"))
        IN /\ task.state = "returned"
           /\ Count(task.out.calls, "calendar_service.schedule_event") = 1
           /\ task.out.calls[1] =
                 Call("calendar_service.schedule_event", <<Str(summary), start, None>>)
           /\ task.out.result = schedule_event(summary, start, None, task.world).result

\* a meeting without a datetime entity still reached the calendar service,
\* whose complaint about the placeholder came back verbatim
C13_Witness ==
    /\ task.state = "returned"
    /\ TaskIntent = "schedule_meeting"
    /\ TaskEntities.t = "dict"
    /\ Absent("datetime")
    /\ ~Absent("person")
    /\ task.world.calendar_ready
    /\ Count(task.out.calls, "calendar_service.schedule_event") = 1
    /\ Contains(task.out.result, <<"an unspecified time">>)

\* a meeting with a parseable datetime was inserted by the calendar service
C13_WitnessScheduled ==
    /\ task.state = "returned"
    /\ TaskIntent = "schedule_meeting"
    /\ Count(task.out.calls, "events.insert") = 1
    /\ Contains(task.out.result, <<"' scheduled successfully. Link: ">>)

\* an application name is present: object_name has a first element that is
\* a non-empty string
AppNamePresent ==
    /\ TaskIntent = "open_application"
    /\ TaskEntities.t = "dict"
    /\ ~Absent("object_name")
    /\ Index0(TaskEntities.v["object_name"]).exc = ""
    /\ Index0(TaskEntities.v["object_name"]).val.t = "str"
    /\ Truthy(Index0(TaskEntities.v["object_name"]).val)
AppName == Index0(TaskEntities.v["object_name"]).val.v
Launches == Count(task.out.calls, "os.startfile")
NotFoundMessages(name) ==
    {<<"Error: Application or file '">> \o name \o <<"'">> \o NotFoundTail,
     <<"Error: Application or file '">> \o name \o <<"' (or '">> \o name \o <<".exe">>
        \o <<"')">> \o NotFoundTail}

\* C14 as stated: whenever the first launch attempt fails not-found, exactly
\* one further attempt is made with the executable suffix appended; a second
\* not-found gives the 'not found ... PATH' message; an OS error or any
\* other exception on the first attempt causes no second attempt and a
\* message distinct from the not-found message.
C14_RetryWheneverNotFound ==
    (task.state # "called" /\ AppNamePresent) =>
        /\ task.state = "returned"
        /\ StartFile(task.world, 1) = "FileNotFoundError" =>
              /\ Launches = 2
              /\ task.out.calls[2] = Call("os.startfile", <<Str(AppName \o <<".exe">>)>>)
              /\ StartFile(task.world, 2) = "FileNotFoundError"
                    => task.out.result \in NotFoundMessages(AppName)
        /\ StartFile(task.world, 1) \notin {"ok", "FileNotFoundError"} =>
              /\ Launches <= 1
              /\ task.out.result \notin NotFoundMessages(AppName)
              /\ ~Contains(task.out.result, NotFoundTail)

\* C14, amended: the further attempt is made exactly when the name does not
\* already end in .exe (in any letter case); a name that already ends in
\* .exe is not tried again and gives the 'not found ... PATH' message for
\* that name alone.
C14_RetryUnlessAlreadyExe ==
    (task.state # "called" /\ AppNamePresent) =>
        /\ task.state = "returned"
        /\ (StartFile(task.world, 1) = "FileNotFoundError" /\ ~EndsWithExe(AppName)) =>
              /\ Launches = 2
              /\ task.out.calls[1] = Call("os.startfile", <<Str(AppName)>>)
              /\ task.out.calls[2] = Call("os.startfile", <<Str(AppName \o <<".exe">>)>>)
              /\ StartFile(task.world, 2) = "FileNotFoundError"
                    => task.out.result =
                          <<"Error: Application or file '">> \o AppName \o <<"' (or '">>
                          \o AppName \o <<".exe">> \o <<"')">> \o NotFoundTail
        /\ (StartFile(task.world, 1) = "FileNotFoundError" /\ EndsWithExe(AppName)) =>
              /\ Launches = 1
              /\ task.out.result =
                    <<"Error: Application or file '">> \o AppName \o <<"'">> \o NotFoundTail
        /\ StartFile(task.world, 1) \notin {"ok", "FileNotFoundError"} =>
              /\ Launches <= 1
              /\ task.out.result \notin NotFoundMessages(AppName)
              /\ ~Contains(task.out.result, NotFoundTail)

\* both attempts failed not-found and the message names both file names
C14_Witness ==
    /\ task.state = "returned"
    /\ AppNamePresent
    /\ ~EndsWithExe(AppName)
    /\ StartFile(task.world, 1) = "FileNotFoundError"
    /\ StartFile(task.world, 2) = "FileNotFoundError"
    /\ Launches = 2
    /\ Contains(task.out.result, NotFoundTail)

\* search_web ran with a query and the response was received and parsed
SearchSucceeded ==
    /\ task.state # "called"
    /\ TaskIntent = "search_web"
    /\ TaskEntities.t = "dict"
    /\ ~Absent("search_query")
    /\ TaskEntities.v["search_query"].t = "str"
    /\ Truthy(TaskEntities.v["search_query"])
    /\ task.world.http = "ok"
    /\ task.world.data.t = "dict"
SearchData == task.world.data
\* the kinds of content a search result shows
Rendered ==
    {m \in {"Summary: ", "Definition: ", "Answer: ", "Related Topics:", "Source: "} :
        Contains(task.out.result, <<m>>)}
SourceGiven(name, url) ==
    IF Has(SearchData, name) /\ Has(SearchData, url) THEN {"Source: "} ELSE {}

\* C15: a successful search renders exactly one kind of content, by strict
\* preference: the abstract (with its source when source name and URL are
\* both present) if non-empty, else the definition (with its source), else
\* the direct answer, else the related-topic snippets; a lower-preference
\* field is never rendered when a higher-preference field is non-empty.
C15_SearchPreference ==
    SearchSucceeded =>
        /\ task.state = "returned"
        /\ Has(SearchData, "AbstractText") =>
              /\ Rendered = {"Summary: "} \cup SourceGiven("AbstractSource", "AbstractURL")
              /\ Contains(task.out.result, <<"Summary: ">> \o SearchData.v["AbstractText"].v)
        /\ (~Has(SearchData, "AbstractText") /\ Has(SearchData, "Definition")) =>
              /\ Rendered = {"Definition: "}
                            \cup SourceGiven("DefinitionSource", "DefinitionURL")
              /\ Contains(task.out.result, <<"Definition: ">> \o SearchData.v["Definition"].v)
        /\ (~Has(SearchData, "AbstractText") /\ ~Has(SearchData, "Definition")
            /\ Has(SearchData, "Answer")) =>
              /\ Rendered = {"Answer: "}
              /\ Contains(task.out.result, <<"Answer: ">> \o SearchData.v["Answer"].v)
        /\ (~Has(SearchData, "AbstractText") /\ ~Has(SearchData, "Definition")
            /\ ~Has(SearchData, "Answer") /\ Has(SearchData, "RelatedTopics")) =>
              Rendered = {"Related Topics:"}

\* a definition with its source was rendered although a direct answer and
\* related topics were in the response too
C15_Witness ==
    /\ SearchSucceeded
    /\ Has(SearchData, "Definition")
    /\ Has(SearchData, "Answer")
    /\ Has(SearchData, "RelatedTopics")
    /\ Rendered = {"Definition: ", "Source: "}

\* some entry of the related-topics list carries snippet text
SnippetGiven ==
    /\ "RelatedTopics" \in DOMAIN SearchData.v
    /\ SearchData.v["RelatedTopics"].t = "list"
    /\ \E i \in DOMAIN SearchData.v["RelatedTopics"].v :
          Has(SearchData.v["RelatedTopics"].v[i], "Text")

\* the message for a search that found nothing, with the search URL
NoDirectAnswer(query) ==
    <<"I couldn't find a direct answer or summary for '">> \o query
    \o <<"'. You can try searching directly: https://duckduckgo.com/?q=">>
    \o quote_plus(query)

\* C16: a successful search whose response has no abstract, no definition,
\* no direct answer and no related-topic snippet text returns the 'couldn't
\* find a direct answer' message with the constructed search URL, also when
\* the related-topics list is non-empty but no entry has snippet text.
C16_NoContentFallback ==
    (SearchSucceeded
     /\ ~Has(SearchData, "AbstractText") /\ ~Has(SearchData, "Definition")
     /\ ~Has(SearchData, "Answer") /\ ~SnippetGiven)
        => task.out.result = NoDirectAnswer(TaskEntities.v["search_query"].v)

\* search_web ran with a query
SearchAttempted ==
    /\ task.state # "called"
    /\ TaskIntent = "search_web"
    /\ TaskEntities.t = "dict"
    /\ ~Absent("search_query")
    /\ TaskEntities.v["search_query"].t = "str"
    /\ Truthy(TaskEntities.v["search_query"])
CouldNotConnect == "Error: Could not connect to the search service. "

\* C17: for search_web with a query, a network failure of the request and a
\* failure to parse the response body are handled by separate handlers and
\* give two different messages, and neither escapes execute_task.
C17_NetworkAndParseApart ==
    SearchAttempted =>
        /\ task.state = "returned"
        /\ task.world.http = "RequestException" => task.out.result[1] = CouldNotConnect
        /\ task.world.http \in ParseFailures => task.out.result[1] # CouldNotConnect

\* the start argument is a string datetime.fromisoformat parses
StartParses ==
    /\ task.args.start_datetime.t = "str"
    /\ Len(task.args.start_datetime.v) = 1
    /\ task.args.start_datetime.v[1] \in IsoTexts

\* C18: schedule_event never raises; for every start string that is not
\* ISO-8601 parseable, with or without an end time, it returns success=False
\* with a descriptive message and inserts no remote event; with the end time
\* absent and a parseable start the end time used is start plus one hour.
C18_CalendarFailsSoftly ==
    task.state # "called" =>
        /\ task.state = "returned"
        /\ (task.args.start_datetime.t = "str" /\ ~StartParses) =>
              /\ ~Success(task.out)
              /\ task.out.result # <<>>
              /\ Count(task.out.calls, "events.insert") = 0
        /\ (StartParses /\ ~Truthy(task.args.end_datetime) /\ task.world.calendar_ready) =>
              /\ Count(task.out.calls, "events.insert") = 1
              /\ task.out.calls[1].args[3] =
                    S(PlusOneHour(task.args.start_datetime.v[1]))

\* the intents execute_task has a branch for
HandledIntents ==
    {"schedule_meeting", "send_email", "send_message", "open_application",
     "get_current_datetime", "search_web", "run_whois", "run_nmap", "unknown"}

\* C19: an intent without a handler (set_reminder, schedule_event,
\* close_application, any label outside the known set) yields the
\* 'recognized but not implemented' message naming the intent and invokes
\* no external collaborator; close_application launches and terminates
\* nothing.
C19_NoHandlerNoEffect ==
    (task.state # "called" /\ TaskIntent \notin HandledIntents) =>
        /\ task.state = "returned"
        /\ task.out.result =
              <<"Action Required: Intent '", TaskIntent,
                "' is recognized but not implemented in the task executor yet.">>
        /\ task.out.calls = <<>>

\* close_application with an application name was dispatched and nothing ran
C19_Witness ==
    /\ task.state = "returned"
    /\ TaskIntent = "close_application"
    /\ TaskEntities.t = "dict"
    /\ ~Absent("object_name")
    /\ Contains(task.out.result, <<"close_application">>)
    /\ task.out.calls = <<>>

\* the memory after one more turn: the turn appended, then the oldest turns
\* dropped down to the limit
AppendThenTrim(mem, limit, user, assistant) ==
    LastN(Append(mem, [user |-> user, assistant |-> assistant]),
          Min(Len(mem) + 1, limit))

\* C20: NLU processing, task execution and reading the context leave the
\* short-term memory alone: across the turns of a conversation the memory
\* changes only by the loop's one add_short_term call at the end of a turn
\* (append, then trim), the context read in a turn is the memory the turn
\* started with, and a turn's NLU result is determined by its utterance
\* alone, not by earlier turns.
C20_OnlyTheLoopWritesMemory ==
    [][/\ IF turn'.event = "turn" /\ turn'.appended
          THEN short_term_memory' =
                  AppendThenTrim(short_term_memory, short_term_limit,
                                 turn'.input, turn'.response)
          ELSE short_term_memory' = short_term_memory
       /\ turn'.event = "turn" =>
             /\ turn'.context \in {<<>>, short_term_memory}
             /\ nlu_result' = process(doc', turn'.nlp)
             /\ turn'.intent = nlu_result'.intent]_vars

\* a turn ended with its pair as the newest element of a full memory
C20_Witness ==
    /\ turn.event = "turn"
    /\ turn.appended
    /\ short_term_limit >= 1
    /\ Len(short_term_memory) = short_term_limit
    /\ short_term_memory[Len(short_term_memory)] =
          [user |-> turn.input, assistant |-> turn.response]
    /\ turn.context # <<>>

\* what was written to the user without the speech-failure notices and the
\* line breaks
SpeechNotices ==
    {"(TTS failed to play task response)", "(TTS failed for sentence)",
     "(TTS failed for final part)", NewLine}
IsText(a) == a \notin SpeechNotices
Displayed == SelectSeq(turn.shown, IsText)

\* C21: a failure of the speech collaborator while speaking a task result,
\* a generated sentence or the final generated remainder does not propagate:
\* the response text has been displayed, the turn is appended to short-term
\* memory, and the loop goes on to the next input.
C21_SpeechFailureContained ==
    (turn.event = "turn" /\ turn.tts = "raises" /\ turn.spoken # <<>>) =>
        /\ Contains(Displayed, SelectSeq(turn.response.v, IsText))
        /\ turn.appended
        /\ short_term_limit >= 1 =>
              /\ short_term_memory # <<>>
              /\ short_term_memory[Len(short_term_memory)] =
                    [user |-> turn.input, assistant |-> turn.response]
        /\ pc = turn.ui

\* speech failed on a generated sentence and on the remainder after it
C21_Witness ==
    /\ turn.event = "turn"
    /\ turn.ui = "cli"
    /\ turn.tts = "raises"
    /\ turn.gen_calls = 1
    /\ Contains(turn.shown, <<"(TTS failed for sentence)">>)
    /\ Contains(turn.shown, <<"(TTS failed for final part)">>)
    /\ turn.appended

\* stripped text of token i, "" when nothing is left
TextOf(i) ==
    LET token_text == Strip(<<doc.tokens[i].text>>)
    IN IF token_text = <<>> THEN "" ELSE token_text[1]

\* positions after the first nmap/whois trigger that are neither punctuation
\* nor stopwords nor one of the prepositions at, on, for
Remaining ==
    LET start_index == FirstLemma(doc.tokens, {"nmap", "whois"})
    IN IF start_index = 0 THEN {}
       ELSE {i \in (start_index + 1)..Len(doc.tokens) :
                /\ "punct" \notin doc.tokens[i].flags
                /\ "stop" \notin doc.tokens[i].flags
                /\ doc.tokens[i].lemma \notin {"at", "on", "for"}}
RemainingIps == {i \in Remaining : TextOf(i) \in IpTexts}
RemainingDomains == {i \in Remaining : TextOf(i) \in DottedTexts \ DigitTexts}
First(positions) == CHOOSE i \in positions : \A k \in positions : i <= k
Classified(intents) ==
    /\ nlu_result # NotCalled
    /\ nlp_state = "loaded"
    /\ nlu_result.intent \in intents

\* C22: for run_nmap and run_whois, among the tokens after the first trigger
\* that are not punctuation, stopwords or at/on/for: target_address is the
\* first dotted-quad token when there is one, otherwise the first token
\* with a '.' that is not purely numeric, and is absent when there is
\* neither; no token before the trigger is selected.
C22_IpPreferredOverDomain ==
    Classified({"run_nmap", "run_whois"}) =>
        LET entities == nlu_result.entities.v
        IN IF RemainingIps # {}
           THEN /\ "target_address" \in DOMAIN entities
                /\ entities["target_address"] = S(TextOf(First(RemainingIps)))
           ELSE IF RemainingDomains # {}
           THEN /\ "target_address" \in DOMAIN entities
                /\ entities["target_address"] = S(TextOf(First(RemainingDomains)))
           ELSE "target_address" \notin DOMAIN entities

\* a domain name before an address: the domain name was taken
C22_DomainBeforeIp ==
    /\ Classified({"run_nmap"})
    /\ RemainingIps # {} /\ RemainingDomains # {}
    /\ First(RemainingDomains) < First(RemainingIps)
    /\ nlu_result.entities.v["target_address"] = S(TextOf(First(RemainingDomains)))

\* what the scan does: the first remaining token that is a dotted quad or a
\* domain-like token is taken, whichever of the two kinds it is
C22_FirstQualifyingToken ==
    Classified({"run_nmap", "run_whois"}) =>
        LET entities == nlu_result.entities.v
            qualifying == RemainingIps \cup RemainingDomains
        IN IF qualifying # {}
           THEN /\ "target_address" \in DOMAIN entities
                /\ entities["target_address"] = S(TextOf(First(qualifying)))
           ELSE "target_address" \notin DOMAIN entities

\* the texts the search query is made of: those after the first search
\* trigger, one preposition (for, about, on) and the determiners and
\* pronouns that follow directly
QueryTexts ==
    LET n == Len(doc.tokens)
        start_index == FirstLemma(doc.tokens, {"search", "find", "look up", "google"})
        p == start_index + 1
        q == IF p <= n /\ doc.tokens[p].lemma \in {"for", "about", "on"} THEN p + 1 ELSE p
        r == CHOOSE r \in q..(n + 1) :
                /\ \A k \in q..(r - 1) : doc.tokens[k].pos \in {"DET", "PRON"}
                /\ r <= n => doc.tokens[r].pos \notin {"DET", "PRON"}
    IN IF start_index = 0 THEN <<>>
       ELSE [i \in 1..(n + 1 - r) |-> doc.tokens[r + i - 1].text]

\* C23: for search_web, search_query is the texts of the tokens after the
\* first search trigger, less one directly following preposition (for,
\* about, on) and the determiners and pronouns that follow directly, joined
\* by single spaces up to the end of the utterance and stripped of
\* surrounding whitespace; the key is absent when no token remains.
C23_SearchQueryJoinedAndTrimmed ==
    Classified({"search_web"}) =>
        LET entities == nlu_result.entities.v
        IN IF QueryTexts = <<>> THEN "search_query" \notin DOMAIN entities
           ELSE /\ "search_query" \in DOMAIN entities
                /\ entities["search_query"] = Str(Strip(Join(QueryTexts)))

\* C23 as stated: the query is the remaining texts joined by single spaces
C23_SearchQueryJoined ==
    Classified({"search_web"}) =>
        LET entities == nlu_result.entities.v
        IN IF QueryTexts = <<>> THEN "search_query" \notin DOMAIN entities
           ELSE /\ "search_query" \in DOMAIN entities
                /\ entities["search_query"] = Str(Join(QueryTexts))

\* 'search on the it   pizza recipe': the preposition, the determiner and
\* the pronoun were skipped and the whitespace token was trimmed away
C23_Witness ==
    /\ Classified({"search_web"})
    /\ Len(doc.tokens) = 7
    /\ QueryTexts = <<Blank, "pizza", "recipe">>
    /\ nlu_result.entities.v["search_query"] = Str(<<"pizza", Blank, "recipe">>)

\* a non-empty string, or a non-empty list of non-empty strings
NonEmptyValue(x) ==
    \/ x.t = "str" /\ x.v # <<>>
    \/ /\ x.t = "list" /\ x.v # <<>>
       /\ \A i \in DOMAIN x.v : x.v[i].t = "str" /\ x.v[i].v # <<>>

\* C24: entity extraction returns, without raising, a bag in which every
\* key that is present maps to a non-empty string or to a non-empty list of
\* non-empty strings; an entity that was not found has no key.
C24_PresentValuesNonEmpty ==
    (nlu_result # NotCalled /\ nlp_state = "loaded") =>
        /\ nlu_result.intent # "error"
        /\ nlu_result.entities.t = "dict"
        /\ \A key \in DOMAIN nlu_result.entities.v :
              NonEmptyValue(nlu_result.entities.v[key])

\* 'search' followed by a whitespace token only: the key is present and its
\* value is the empty string
C24_EmptySearchQuery ==
    /\ Classified({"search_web"})
    /\ QueryTexts = <<Blank>>
    /\ "search_query" \in DOMAIN nlu_result.entities.v
    /\ nlu_result.entities.v["search_query"] = Str(<<>>)

\* the named-entity recogniser gave an organisation or a product
NamedObject == \E i \in DOMAIN doc.ents : Lower(doc.ents[i].label) \in {"org", "product"}

C26_OpenWithoutFollowerIsUnknown ==
    (nlu_result # NotCalled /\ nlp_state = "loaded"
     /\ AnyLemma(doc, {"open", "launch", "start"})
     /\ ~RuleHolds(4, doc)
     /\ \A k \in 1..3 : ~RuleHolds(k, doc))
        => nlu_result.intent = "unknown_intent"

\* an open token without a qualifying follower next to a trigger of a
\* later rule
C26_Witness ==
    /\ nlu_result # NotCalled /\ nlp_state = "loaded"
    /\ "open" \in LemmaSet(doc)
    /\ ~RuleHolds(4, doc)
    /\ \E k \in 5..12 : RuleHolds(k, doc)
    /\ nlu_result.intent = "unknown_intent"

\* token j ends a capture: punctuation or a verb
Stops(j) == "punct" \in doc.tokens[j].flags \/ doc.tokens[j].pos = "VERB"

\* the capture after trigger position i under a cap: the texts of the
\* tokens that follow up to the first punctuation or verb token, the cap
\* or the end of the utterance
Capture(i, cap) ==
    LET n == Len(doc.tokens)
        run == CHOOSE m \in 0..(n - i) :
                  /\ \A j \in (i + 1)..(i + m) : ~Stops(j)
                  /\ (i + m < n) => Stops(i + m + 1)
        m == IF run > cap THEN cap ELSE run
    IN [k \in 1..m |-> doc.tokens[i + k].text]

\* object_name is the one-element list made of the capture of the first
\* trigger that has a non-empty one, when there is such a trigger
HeuristicName(cap) ==
    LET triggers == {i \in DOMAIN doc.tokens :
                        /\ doc.tokens[i].lemma \in
                              {"open", "launch", "start", "close", "quit", "exit"}
                        /\ Capture(i, cap) # <<>>}
        entities == nlu_result.entities.v
    IN IF triggers = {} THEN "object_name" \notin DOMAIN entities
       ELSE /\ "object_name" \in DOMAIN entities
            /\ entities["object_name"] = List(<<Str(Join(Capture(First(triggers), cap)))>>)

\* C27: for open_application and close_application without an object_name
\* from named-entity recognition, object_name is a list of exactly one
\* element, built from the contiguous tokens after the first trigger with a
\* non-empty capture; the capture has no punctuation and no verb token,
\* ends before the first such token, and has at most 3 tokens.
C27_CaptureAtMostThree ==
    (Classified({"open_application", "close_application"}) /\ ~NamedObject)
        => HeuristicName(3)

\* what the loop does: the length test follows the append, so a capture
\* holds up to 4 tokens
C27_CaptureAtMostFour ==
    (Classified({"open_application", "close_application"}) /\ ~NamedObject)
        => HeuristicName(4)

\* 'open chrome browser window now please': four tokens were captured
C27_FourCaptured ==
    /\ Classified({"open_application"})
    /\ ~NamedObject
    /\ nlu_result.entities.v["object_name"] =
          List(<<Str(<<"chrome", Blank, "browser", Blank, "window", Blank, "now">>)>>)

\* C28: every token sequence classified open_application yields a bag that
\* holds object_name with at least one element, so the dispatcher does not
\* answer an NLU-produced open_application result with 'No application
\* name specified'.
C28_OpenAlwaysNamesApplication ==
    Classified({"open_application"}) =>
        /\ "object_name" \in DOMAIN nlu_result.entities.v
        /\ nlu_result.entities.v["object_name"].t = "list"
        /\ nlu_result.entities.v["object_name"].v # <<>>
        /\ execute_task(nlu_result, BaseWorld).result
              # <<"Error: No application name specified.">>

\* 'open Zoom' with Zoom tagged as a verb: the title-cased follower makes
\* the classifier return open_application, the capture stops at the verb,
\* and the dispatcher finds no name
C28_OpenWithoutName ==
    /\ Classified({"open_application"})
    /\ Len(doc.tokens) = 2
    /\ doc.tokens[2].pos = "VERB" /\ "title" \in doc.tokens[2].flags
    /\ "object_name" \notin DOMAIN nlu_result.entities.v
    /\ execute_task(nlu_result, BaseWorld).result
          = <<"Error: No application name specified.">>

\* the full response of the turn just made: the dispatcher's result, the
\* NLU error text, or everything the generator produced
FullResponses ==
    IF nlu_result.intent \in actionable_intents
    THEN {Str(execute_task(nlu_result, w).result) : w \in LoopWorlds}
    ELSE IF nlu_result.intent = "error" THEN {nlu_result.error}
    ELSE {Str(g) : g \in Generations}

\* C29: in the command-line loop every turn that completes appends exactly
\* one pair (user input, full response) to the short-term memory, after the
\* response was displayed; an iteration that is skipped (empty input) or
\* aborted by an exception leaves the memory unchanged, and the loop goes
\* on.
C29_OnePairPerCompletedTurn ==
    [][pc = "cli" =>
         /\ turn'.event = "turn" =>
               /\ turn'.appended
               /\ turn'.input = InputText(doc')
               /\ turn'.response \in FullResponses'
               /\ Contains(Displayed', SelectSeq(turn'.response.v, IsText))
               /\ short_term_memory' =
                     AppendThenTrim(short_term_memory, short_term_limit,
                                    InputText(doc'), turn'.response)
               /\ pc' = "cli"
         /\ turn'.event \in {"empty", "EOFError"} =>
               /\ ~turn'.appended
               /\ short_term_memory' = short_term_memory
               /\ pc' = "cli"]_vars

\* input() raised after a completed turn: the pair of that turn is still
\* the memory and the loop is still running
C29_Witness ==
    /\ turn.event = "EOFError"
    /\ pc = "cli"
    /\ short_term_memory # <<>>
    /\ short_term_memory[1].user = InputText(doc)
    /\ nlu_result.intent \in actionable_intents

\* the event that ended the loop caused no NLU call, no dispatch and no
\* memory append, and the memory manager is closed
C30_TerminatingEventDoesNoWork ==
    turn.event \in {"quit", "KeyboardInterrupt"} =>
        /\ pc = "closed"
        /\ turn.nlu_calls = 0 /\ turn.exec_calls = 0 /\ ~turn.appended

\* C30: the command-line loop terminates and closes the memory manager,
\* with no NLU call, dispatch or memory append for the terminating event,
\* whenever the user enters quit or exit, a keyboard interrupt arrives, or
\* reading input fails for good (end of input); the loop does not iterate
\* forever without consuming a line of input.
C30_LoopTerminates ==
    /\ [](C30_TerminatingEventDoesNoWork)
    /\ (pc = "cli_eof") ~> (pc = "closed")

\* at the end of input the loop has reported a failed read and is back at
\* the input() call
C30_SpinsAtEndOfInput ==
    /\ pc = "cli_eof"
    /\ turn.event = "EOFError"
    /\ ENABLED CliInputFailsAtEof

====
